---- MODULE Spec2Model ----
(***************************************************************************)
(* Fightclaw server: the two Durable Objects of apps/server/src/do.        *)
(*                                                                         *)
(*   MatchDO       POST /move (idempotent, version-checked move), GET      *)
(*                 /state.  Specification MoveSpec.                        *)
(*   MatchmakerDO  POST /queue (pairing), GET /events/wait (per-agent      *)
(*                 event buffer and waiters), every other path (404).      *)
(*                 Specification QueueSpec, and FairQueueSpec for the      *)
(*                 liveness properties.  BufferSpec, WaitSpec and          *)
(*                 FaultySpec run the same handlers on the runs that fill  *)
(*                 a buffer, that follow one suspended call, and that let  *)
(*                 D1 fail.                                                *)
(*   match actor   The operations of spec section 4.2 that MatchDO.ts does *)
(*                 not have (turn timer, finish, subscriptions), modelled  *)
(*                 from the spec.  Specifications ActorSpec, StreamSpec.   *)
(*                                                                         *)
(* Scheduling.  A Durable Object runs one JavaScript thread.  A handler    *)
(* runs until it awaits; while it awaits a ctx.storage operation the       *)
(* object's input gate is closed and no other event is delivered, so a     *)
(* run of statements whose only awaits are storage operations is one       *)
(* atomic step.  Any other await (request.json(), stub.fetch, a D1 query,  *)
(* a pending promise) lets other handlers run, and is a step boundary.     *)
(***************************************************************************)
EXTENDS Integers, Sequences, FiniteSets, TLC

VARIABLES
  \* ---- MatchDO: durable storage of one match object
  state,        \* storage key "state": a MatchState, or Absent
  idem,         \* storage keys "move:<moveId>": moveId -> IdempotencyEntry or Absent
  \* ---- MatchDO: requests and what they were answered
  inflight,     \* POST /move requests whose body is being read
  nReq,         \* number of requests received so far
  now,          \* the clock read by new Date(); it ticks whenever a response is stored
  last,         \* the request answered last: its answer and what it saw, or Absent
  first,        \* moveId -> the first handled submission of it and its answer, or Absent
  applied,      \* moveId -> number of times "state" was written on account of it
  accepted,     \* the stateVersions returned by freshly accepted moves, in order
  finishAsked   \* whether the match object has been sent POST /finish

moveVars == <<state, idem, inflight, nReq, now, last, first, applied, accepted, finishAsked>>

VARIABLES
  \* ---- MatchmakerDO: durable storage (0: the key is not set)
  pendingMatchId,   \* storage key "pendingMatchId"
  pendingAgentId,   \* storage key "pendingAgentId"
  latestMatchId,    \* storage key "latestMatchId"
  events,           \* storage keys "events:<agentId>": agent -> buffered events
  \* ---- MatchmakerDO: memory
  waiters,          \* this.waiters: agent -> its resolvers, in insertion order; of
                    \* each, whether the caller that awaits it has disconnected
  joins,            \* agent -> its POST /queue handler: where it awaits, and its locals
  \* ---- what the matchmaker talks to
  nMatches,         \* matchIds allocated so far (crypto.randomUUID() gives nMatches + 1)
  inits,            \* the POST /init requests sent to match objects
  matches,          \* D1 table matches: the ids inserted
  matchPlayers,     \* D1 table match_players: the rows inserted
  \* ---- what the agents have seen
  enq,              \* agent -> the events enqueued for it, in order
  ret,              \* agent -> the events returned to it by waitEvents, in order
  answered,         \* the answers POST /queue has given: agent, matchId, status
  act               \* the step taken last: operation, agent, answer, storage before it

queueVars == <<pendingMatchId, pendingAgentId, latestMatchId, events, waiters, joins,
               nMatches, inits, matches, matchPlayers, enq, ret, answered, act>>

VARIABLES
  \* ---- the match actor of spec section 4.2 (its routes /init, /stream and /finish
  \* ---- are exercised by the durable tests; its code is not among the sources)
  match,        \* the actor's state: status, stateVersion, activeAgentId, winner, reason
  timers,       \* the armed turn timers, each with the stateVersion it was armed against
  log,          \* the canonical event sequence broadcast so far
  subs,         \* subscription -> its subscriber, what it was sent and what it has read
  results,      \* the match_results rows written, in order
  leaderboard,  \* player -> number of updates of its leaderboard row
  responses,    \* the idempotency table: moveId -> the stored response, or Absent
  done          \* the actor operation run last: its input, its answer, the state before

actorVars == <<match, timers, log, subs, results, leaderboard, responses, done>>

VARIABLES
  \* ---- the auth routes (routes/auth.ts) and the D1 table agents
  agents,       \* agents: id -> the row (name, claim_code_hash, verified_at), or Absent
  regs,         \* the POST /register handlers in flight: what each is about to insert
  verifies,     \* the POST /verify handlers in flight: where each awaits, and its row
  clock,        \* what datetime('now') gave last
  issued,       \* the registrations answered 201: agent id and claimCode returned
  verified200,  \* the agent ids that a verify answered 200 has named
  nAuth,        \* the requests the auth and gated routes have been sent
  authAct       \* the request answered last by these routes, and its answer

authVars == <<agents, regs, verifies, clock, issued, verified200, nAuth, authAct>>

VARIABLES
  \* ---- utils/durable.ts: one call of doFetchWithRetry
  retry,        \* where the call stands: its retries, its attempt, what each
                \* stub.fetch gave, and what the call returned or threw
  \* ---- the boardgame.io sim harness: one run of playMatchBoardgameIO
  sim           \* where the run stands: its policy, the engine state, its counters

toolVars == <<retry, sim>>

vars == <<moveVars, queueVars, actorVars, authVars, toolVars>>

Absent == [absent |-> TRUE]

(***************************************************************************)
(* Bounds of the model.                                                    *)
(***************************************************************************)
MaxRequests == 3      \* requests one match object receives
MaxMatches == 2       \* matchIds the matchmaker allocates
MaxBuffered == 27     \* matchIds the matchmaker allocates in a run that fills a buffer
MaxWaitMatches == 1
MaxStateVersion == 2
QueueThreshold == 3
MaxAuthRequests == 6   \* requests the auth and gated routes are sent
MaxRetries == 3        \* the retries a call of doFetchWithRetry is given
MaxTurns == 2          \* maxTurns of a sim run
MaxPlan == 2           \* moves in one turn plan
MaxActions == 1        \* actionsRemaining at the start of an engine turn


(***************************************************************************)
(* JSON values, as far as the handlers tell them apart.  A string is its   *)
(* index n: 0 is the empty string, k > 0 the k-th non-empty string.        *)
(***************************************************************************)
JsString(k) == [type |-> "string", s |-> "", n |-> k]
JsInt(n) == [type |-> "number", s |-> "integer", n |-> n]
JsFrac(n) == [type |-> "number", s |-> "fraction", n |-> n]   \* n + 1/2
JsObject(s) == [type |-> "object", s |-> s, n |-> 0]
JsArray == [type |-> "array", s |-> "", n |-> 0]
JsNull == [type |-> "null", s |-> "", n |-> 0]

MoveIds == {1, 2, 3}      \* the moveIds the clients of the match use
Slots == {1, 2}         \* the requests of one match in flight at the same time
Moves == {JsObject("end_turn"), JsObject("pass")}
Versions == {0, 1, 2}       \* the expectedVersions the clients send

\* A request body: isObject is whether request.json() gave a non-null,
\* non-array object; the fields are those the handler reads.
Body(id, ev, mv) == [isObject |-> TRUE, moveId |-> id, expectedVersion |-> ev, move |-> mv]

ValidBodies == {Body(JsString(id), JsInt(v), mv) : id \in MoveIds, v \in Versions, mv \in Moves}

\* Malformed bodies: one field wrong at a time, and no JSON object at all.
InvalidBodies ==
  { [isObject |-> FALSE, moveId |-> JsNull, expectedVersion |-> JsNull, move |-> JsNull],
    Body(JsString(0), JsInt(0), JsObject("pass")),
    Body(JsInt(1), JsInt(0), JsObject("pass")),
    Body(JsString(1), JsFrac(0), JsObject("pass")),
    Body(JsString(1), JsString(1), JsObject("pass")),
    Body(JsString(1), JsInt(0), JsArray),
    Body(JsString(1), JsInt(0), JsNull) }

Bodies == ValidBodies \cup InvalidBodies

(***************************************************************************)
(* MatchDO.ts: the pure helpers.                                           *)
(***************************************************************************)
isRecord(value) == value.type = "object"

isMovePayload(value) ==
  /\ value.isObject
  /\ value.moveId.type = "string"
  /\ value.moveId.n > 0
  /\ value.expectedVersion.type = "number"
  /\ value.expectedVersion.s = "integer"
  /\ isRecord(value.move)

createInitialState(t) ==
  [turn |-> 0, updatedAt |-> t, lastMove |-> JsNull, stateVersion |-> 0]

\* Mutant: the new state keeps the old stateVersion.
applyMoveKeepVersion(s, move, t) ==
  IF ~isRecord(move)
    THEN [ok |-> FALSE, error |-> "Move payload must be an object."]
    ELSE [ok |-> TRUE,
          state |-> [turn |-> s.turn + 1,
                     updatedAt |-> t,
                     stateVersion |-> s.stateVersion,
                     lastMove |-> move]]

applyMove(s, move, t) ==
  IF ~isRecord(move)
    THEN [ok |-> FALSE, error |-> "Move payload must be an object."]
    ELSE [ok |-> TRUE,
          state |-> [turn |-> s.turn + 1,
                     updatedAt |-> t,
                     stateVersion |-> s.stateVersion + 1,
                     lastMove |-> move]]

\* (await storage.get("state")) ?? createInitialState()
LoadState(t) == IF state = Absent THEN createInitialState(t) ELSE state

\* Mutant: only a stale expectedVersion is a mismatch.
VersionMismatchOnlyStale(body, s) == body.expectedVersion.n < s.stateVersion

\* Mutant: no version check.
VersionMismatchNever(body, s) == FALSE

\* body.expectedVersion !== state.stateVersion
VersionMismatch(body, s) == body.expectedVersion.n # s.stateVersion

\* Mutant: the lookup serves only the accepted moves that were stored.
CachedAccepted(id) == IF idem[id] # Absent /\ idem[id].status = 200 THEN idem[id] ELSE Absent

\* await storage.get(idempotencyKey)
Cached(id) == idem[id]

\* Mutant: only accepted moves are remembered.
PutIdempotencyOnlyAccepted(id, status, response) ==
  IF status = 200 THEN [idem EXCEPT ![id] = [status |-> status, body |-> response]] ELSE idem

\* storage.put(idempotencyKey, {status, body})
PutIdempotency(id, status, response) ==
  [idem EXCEPT ![id] = [status |-> status, body |-> response]]

(***************************************************************************)
(* MatchDO.fetch, POST /move.                                              *)
(***************************************************************************)
\* Requests in flight are told apart by the slot they occupy.
FreeSlot == CHOOSE i \in Slots :
  /\ \A r \in inflight : r.rid # i
  /\ \A j \in Slots : j < i => \E r \in inflight : r.rid = j

\* moveIds are opaque strings the handler only compares, so a behaviour and
\* its image under a renaming of moveIds are alike: the clients use m1, then
\* m2, ... (each new moveId is the least one not yet sent).
SentIds == {id \in MoveIds : first[id] # Absent} \cup {r.body.moveId.n : r \in inflight}
NextIds == SentIds \cup {id \in MoveIds : \A j \in MoveIds : j < id => j \in SentIds}

\* A well-formed request arrives and its handler awaits request.json().
\* raced collects the answers given to other requests while this one is
\* in flight.
Received(body) ==
  /\ isMovePayload(body)
  /\ nReq < MaxRequests
  /\ Cardinality(inflight) < Cardinality(Slots)
  /\ nReq' = nReq + 1
  /\ inflight' = inflight \cup {[rid |-> FreeSlot, body |-> body, raced |-> {}]}
  /\ UNCHANGED <<state, idem, now, last, first, applied, accepted, finishAsked>>

ReceiveMove(body) ==
  /\ Received(body)
  /\ UNCHANGED <<queueVars, actorVars, authVars, toolVars>>

\* A submission is fresh when no submission of its moveId was handled before.
Fresh(body) == isMovePayload(body) /\ first[body.moveId.n] = Absent

\* What an answered request is recorded as: the answer, and the stored
\* state before and after its handler ran.
Outcome(req, status, response, after) ==
  [op |-> "move", body |-> req.body, status |-> status, response |-> response,
   fresh |-> Fresh(req.body), before |-> state, after |-> after, raced |-> req.raced]

\* The other requests in flight learn of the answer.
Racing(req, status) ==
  {[r EXCEPT !.raced = @ \cup {[moveId |-> req.body.moveId.n, fresh |-> Fresh(req.body),
                                 expectedVersion |-> req.body.expectedVersion.n,
                                 status |-> status]}]
     : r \in inflight \ {req}}

FirstOf(req, status, response) ==
  IF Fresh(req.body)
    THEN [first EXCEPT ![req.body.moveId.n] =
            [body |-> req.body, status |-> status, response |-> response]]
    ELSE first

\* Mutant: the 400 of a malformed payload is stored under its moveId.
RejectPayloadRecorded(body) ==
  LET req == [rid |-> 0, body |-> body, raced |-> {}]
      response == [ok |-> FALSE,
                   error |-> "Move payload must include moveId, expectedVersion, and move."]
  IN /\ ~isMovePayload(body)
     /\ nReq < MaxRequests
     /\ nReq' = nReq + 1
     /\ last' = Outcome(req, 400, response, state)
     /\ idem' = IF body.moveId.type = "string" /\ body.moveId.n \in MoveIds
                  THEN PutIdempotency(body.moveId.n, 400, response)
                  ELSE idem
     /\ UNCHANGED <<state, inflight, now, first, applied, accepted, finishAsked, queueVars, actorVars, authVars, toolVars>>

\* Lines 36-42: the payload is malformed.  The handler touches no storage,
\* so the request is answered in the step it arrives in.
RejectPayload(body) ==
  LET req == [rid |-> 0, body |-> body, raced |-> {}]
      response == [ok |-> FALSE,
                   error |-> "Move payload must include moveId, expectedVersion, and move."]
  IN /\ ~isMovePayload(body)
     /\ nReq < MaxRequests
     /\ nReq' = nReq + 1
     /\ last' = Outcome(req, 400, response, state)
     /\ UNCHANGED <<state, idem, inflight, now, first, applied, accepted, finishAsked, queueVars, actorVars, authVars, toolVars>>

\* Lines 44-48: the moveId has a stored response, which is returned as stored.
ReplayCached(req) ==
  LET cached == Cached(req.body.moveId.n)
  IN /\ cached # Absent
     /\ last' = Outcome(req, cached.status, cached.body, state)
     /\ inflight' = Racing(req, cached.status)
     /\ UNCHANGED <<state, idem, now, first, applied, accepted>>

\* Lines 50-60: the version check fails; the 409 is stored under the moveId.
RejectVersion(req) ==
  LET id == req.body.moveId.n
      s == LoadState(now)
      response == [ok |-> FALSE, error |-> "Version mismatch.", stateVersion |-> s.stateVersion]
  IN /\ Cached(id) = Absent
     /\ VersionMismatch(req.body, s)
     /\ idem' = PutIdempotency(id, 409, response)
     /\ last' = Outcome(req, 409, response, state)
     /\ inflight' = Racing(req, 409)
     /\ first' = FirstOf(req, 409, response)
     /\ now' = now + 1
     /\ UNCHANGED <<state, applied, accepted>>

\* Lines 62-68: applyMove rejects the move; the 400 is stored under the moveId.
\* (isMovePayload has already required move to be a record, so no request
\* reaches this branch.)
RejectMove(req) ==
  LET id == req.body.moveId.n
      s == LoadState(now)
      result == applyMove(s, req.body.move, now)
      response == [ok |-> FALSE, error |-> result.error]
  IN /\ Cached(id) = Absent
     /\ ~VersionMismatch(req.body, s)
     /\ ~result.ok
     /\ idem' = PutIdempotency(id, 400, response)
     /\ last' = Outcome(req, 400, response, state)
     /\ inflight' = Racing(req, 400)
     /\ first' = FirstOf(req, 400, response)
     /\ now' = now + 1
     /\ UNCHANGED <<state, applied, accepted>>

\* Lines 62-73: the move is applied; the new state and the 200 are stored.
AcceptMove(req) ==
  LET id == req.body.moveId.n
      s == LoadState(now)
      result == applyMove(s, req.body.move, now)
      response == [ok |-> TRUE, state |-> result.state]
  IN /\ Cached(id) = Absent
     /\ ~VersionMismatch(req.body, s)
     /\ result.ok
     /\ state' = result.state
     /\ idem' = PutIdempotency(id, 200, response)
     /\ last' = Outcome(req, 200, response, result.state)
     /\ inflight' = Racing(req, 200)
     /\ first' = FirstOf(req, 200, response)
     /\ applied' = [applied EXCEPT ![id] = @ + 1]
     /\ accepted' = Append(accepted, result.state.stateVersion)
     /\ now' = now + 1

\* request.json() has resolved: lines 44-73 run in one step, their only
\* awaits being storage operations.
HandleMove(req) ==
  /\ req \in inflight
  /\ UNCHANGED <<nReq, finishAsked, queueVars, actorVars, authVars, toolVars>>
  /\ \/ ReplayCached(req)
     \/ RejectVersion(req)
     \/ RejectMove(req)
     \/ AcceptMove(req)

\* Mutant: GET /state stores the state it returns.
GetStateStored ==
  /\ nReq < MaxRequests
  /\ nReq' = nReq + 1
  /\ state' = LoadState(now)
  /\ last' = [op |-> "state", body |-> Absent, status |-> 200,
              response |-> [state |-> LoadState(now)], fresh |-> FALSE,
              before |-> state, after |-> LoadState(now), raced |-> {}]
  /\ UNCHANGED <<idem, inflight, now, first, applied, accepted, finishAsked, queueVars, actorVars, authVars, toolVars>>

\* Lines 76-80: GET /state.
GetState ==
  /\ nReq < MaxRequests
  /\ nReq' = nReq + 1
  /\ last' = [op |-> "state", body |-> Absent, status |-> 200,
              response |-> [state |-> LoadState(now)], fresh |-> FALSE,
              before |-> state, after |-> state, raced |-> {}]
  /\ UNCHANGED <<state, idem, inflight, now, first, applied, accepted, finishAsked, queueVars, actorVars, authVars, toolVars>>

\* Line 83: POST /finish, as the finish route of the server sends it, is no
\* path of fetch and is answered 404 Not found.
Finish ==
  /\ nReq < MaxRequests
  /\ nReq' = nReq + 1
  /\ finishAsked' = TRUE
  /\ last' = [op |-> "finish", body |-> Absent, status |-> 404, response |-> "Not found",
              fresh |-> FALSE, before |-> state, after |-> state, raced |-> {}]
  /\ UNCHANGED <<state, idem, inflight, now, first, applied, accepted, queueVars, actorVars, authVars, toolVars>>

MoveInit ==
  /\ finishAsked = FALSE
  /\ state = Absent
  /\ idem = [id \in MoveIds |-> Absent]
  /\ inflight = {}
  /\ nReq = 0
  /\ now = 0
  /\ last = Absent
  /\ first = [id \in MoveIds |-> Absent]
  /\ applied = [id \in MoveIds |-> 0]
  /\ accepted = <<>>

MoveNext ==
  \/ \E id \in NextIds, v \in Versions, mv \in Moves :
        ReceiveMove(Body(JsString(id), JsInt(v), mv))
  \/ \E body \in Bodies : RejectPayload(body)
  \/ \E req \in inflight : HandleMove(req)
  \/ GetState

\* The requests of a match that is also asked to finish.
EndNext ==
  \/ \E id \in NextIds, v \in Versions, mv \in Moves :
        ReceiveMove(Body(JsString(id), JsInt(v), mv))
  \/ \E req \in inflight : HandleMove(req)
  \/ Finish

(***************************************************************************)
(* MatchmakerDO.ts.                                                        *)
(***************************************************************************)
EVENT_BUFFER_MAX == 25
ELO_START == 1500

Agents == {1, 2}          \* the x-agent-id values (0: no agent)
WaiterSlots == {1, 2}     \* the suspended waitEvents calls one agent can have
MatchIds == 1..MaxMatches

\* D1 table leaderboard, which the matchmaker only reads: agent 1 has a row.
Leaderboard == [a \in {1} |-> 1516]

\* ../protocol/events
buildMatchFoundEvent(matchId, opponent) ==
  [event |-> "match_found", matchId |-> matchId, opponent |-> opponent]
buildNoEventsEvent == [event |-> "no_events"]

getRating(agentId) ==
  IF agentId \in DOMAIN Leaderboard THEN Leaderboard[agentId] ELSE ELO_START

\* The storage the queue operations read and write, as one value.
Storage ==
  [pendingMatchId |-> pendingMatchId, pendingAgentId |-> pendingAgentId,
   latestMatchId |-> latestMatchId, events |-> events]

Act(op, agent, response) ==
  [op |-> op, agent |-> agent, response |-> response, pre |-> Storage]

Idle == [pc |-> "idle", matchId |-> 0, pendingAgentId |-> 0]

\* A resolver of this.waiters, as waitForEvent creates it.  watched marks the
\* one suspended call whose return is followed.
Resolver(watched) == [gone |-> FALSE, watched |-> watched]

\* The timeout parameters of GET /events/wait: none, "-1", "0", "30", "soon".
TimeoutParams == {"", "-1", "0", "30", "soon"}

\* Number.parseInt(timeoutParam, 10), NaN being [nan |-> TRUE].
NaN == [nan |-> TRUE]
parseInt(param) ==
  CASE param = "-1" -> [nan |-> FALSE, n |-> 0 - 1]
    [] param = "0" -> [nan |-> FALSE, n |-> 0]
    [] param = "30" -> [nan |-> FALSE, n |-> 30]
    [] OTHER -> NaN

\* Lines 107-113: timeoutParam ? parseInt(timeoutParam) : 30, and 30 for NaN.
TimeoutSeconds(param) ==
  LET parsed == IF param # "" THEN parseInt(param) ELSE [nan |-> FALSE, n |-> 30]
  IN IF parsed.nan THEN 30 ELSE parsed.n

\* const timeoutMs = Math.max(timeoutSeconds, 0) * 1000
TimeoutMsUnclamped(timeoutSeconds) == timeoutSeconds * 1000
TimeoutMs(timeoutSeconds) ==
  (IF timeoutSeconds > 0 THEN timeoutSeconds ELSE 0) * 1000

\* Mutant: the resolver stays in the agent's set.
removeWaiterNever(ws, i) == ws

\* removeWaiter: the i-th resolver leaves the agent's set.
removeWaiter(ws, i) == SubSeq(ws, 1, i - 1) \o SubSeq(ws, i + 1, Len(ws))

\* events.push(event); if (events.length > EVENT_BUFFER_MAX) events.splice(0, ...)
PushEventUncapped(buffer, event) == Append(buffer, event)
PushEvent(buffer, event) ==
  LET pushed == Append(buffer, event)
  IN IF Len(pushed) > EVENT_BUFFER_MAX
       THEN SubSeq(pushed, Len(pushed) - EVENT_BUFFER_MAX + 1, Len(pushed))
       ELSE pushed

\* const [next, ...rest] = events
PopEventLast(buffer) ==
  [next |-> buffer[Len(buffer)], rest |-> SubSeq(buffer, 1, Len(buffer) - 1)]
PopEvent(buffer) == [next |-> Head(buffer), rest |-> Tail(buffer)]

\* Mutant: the event goes to the end of the buffer, waiters or not.
enqueueEventBuffered(q, agentId, event) ==
  [q EXCEPT !.enq[agentId] = Append(@, event), !.events[agentId] = PushEvent(@, event)]

\* enqueueEvent on q = [waiters, events, enq, ret]: the event goes to the
\* agent's oldest resolver if it has one, else to the end of its buffer.  A
\* resolver whose caller has disconnected takes the event with it.
enqueueEvent(q, agentId, event) ==
  LET q1 == [q EXCEPT !.enq[agentId] = Append(@, event)]
  IN IF q1.waiters[agentId] # <<>>
       THEN LET resolver == Head(q1.waiters[agentId])
            IN [q1 EXCEPT !.waiters[agentId] = removeWaiter(@, 1),
                          !.ret[agentId] = IF resolver.gone THEN @ ELSE Append(@, event)]
       ELSE [q1 EXCEPT !.events[agentId] = PushEvent(@, event)]

Queues == [waiters |-> waiters, events |-> events, enq |-> enq, ret |-> ret]

\* pendingAgentId === agentId
SameAgentNever(pending, agentId) == FALSE
SameAgent(pending, agentId) == pending = agentId

\* const players = [pendingAgentId, agentId]
PlayersSwapped(pending, agentId) == <<agentId, pending>>
Players(pending, agentId) == <<pending, agentId>>

\* if (pendingMatchId && pendingAgentId)
SlotHeldStale ==
  /\ pendingMatchId # 0 /\ pendingAgentId # 0
  /\ \A b \in Agents : joins[b].pc # "recordMatch"
SlotHeldNever == FALSE
SlotHeld == pendingMatchId # 0 /\ pendingAgentId # 0

(***************************************************************************)
(* MatchmakerDO.fetch, POST /queue.                                        *)
(***************************************************************************)
Answer(a, matchId, status) == [agent |-> a, matchId |-> matchId, status |-> status]

\* Lines 44-51: the agent already holds the slot.
Rejoin(a) ==
  /\ SlotHeld
  /\ SameAgent(pendingAgentId, a)
  /\ answered' = answered \cup {Answer(a, pendingMatchId, "waiting")}
  /\ act' = Act("rejoin", a, [matchId |-> pendingMatchId, status |-> "waiting"])
  /\ UNCHANGED <<pendingMatchId, pendingAgentId, latestMatchId, events, waiters, joins,
                 nMatches, inits, matches, matchPlayers, enq, ret>>

\* Mutant: the pairing join deletes only the matchId of the slot.
PairKeepsAgent(a) ==
  /\ SlotHeld
  /\ ~SameAgent(pendingAgentId, a)
  /\ pendingMatchId' = 0
  /\ latestMatchId' = pendingMatchId
  /\ inits' = inits \cup {[matchId |-> pendingMatchId, players |-> Players(pendingAgentId, a)]}
  /\ joins' = [joins EXCEPT ![a] =
       [pc |-> "init", matchId |-> pendingMatchId, pendingAgentId |-> pendingAgentId]]
  /\ act' = Act("pair", a, Absent)
  /\ UNCHANGED <<pendingAgentId, events, waiters, nMatches, matches,
                 matchPlayers, enq, ret, answered>>

\* Mutant: the pairing join sends /init and leaves the slot as it is.
PairKeepsSlot(a) ==
  /\ SlotHeld
  /\ ~SameAgent(pendingAgentId, a)
  /\ latestMatchId' = pendingMatchId
  /\ inits' = inits \cup {[matchId |-> pendingMatchId, players |-> Players(pendingAgentId, a)]}
  /\ joins' = [joins EXCEPT ![a] =
       [pc |-> "init", matchId |-> pendingMatchId, pendingAgentId |-> pendingAgentId]]
  /\ act' = Act("pair", a, Absent)
  /\ UNCHANGED <<pendingMatchId, pendingAgentId, events, waiters, nMatches, matches,
                 matchPlayers, enq, ret, answered>>

\* Lines 53-69: another agent holds the slot.  The slot is cleared, the match
\* object is sent /init, and the handler awaits the answer.
Pair(a) ==
  /\ SlotHeld
  /\ ~SameAgent(pendingAgentId, a)
  /\ pendingMatchId' = 0
  /\ pendingAgentId' = 0
  /\ latestMatchId' = pendingMatchId
  /\ inits' = inits \cup {[matchId |-> pendingMatchId, players |-> Players(pendingAgentId, a)]}
  /\ joins' = [joins EXCEPT ![a] =
       [pc |-> "init", matchId |-> pendingMatchId, pendingAgentId |-> pendingAgentId]]
  /\ act' = Act("pair", a, Absent)
  /\ UNCHANGED <<events, waiters, nMatches, matches, matchPlayers, enq, ret, answered>>

\* Mutant: a join that finds the slot empty takes it with the latest matchId.
HoldLatest(a) ==
  LET matchId == IF latestMatchId # 0 THEN latestMatchId ELSE nMatches + 1 IN
  /\ ~SlotHeld
  /\ nMatches' = nMatches + 1
  /\ pendingMatchId' = matchId
  /\ pendingAgentId' = a
  /\ latestMatchId' = matchId
  /\ joins' = [joins EXCEPT ![a] =
       [pc |-> "recordMatch", matchId |-> matchId, pendingAgentId |-> 0]]
  /\ act' = Act("hold", a, Absent)
  /\ UNCHANGED <<events, waiters, inits, matches, matchPlayers, enq, ret, answered>>

\* Lines 88-92: the slot is empty.  A new matchId takes it, and the handler
\* awaits the insert into matches.
Hold(a) ==
  /\ ~SlotHeld
  /\ nMatches' = nMatches + 1
  /\ pendingMatchId' = nMatches + 1
  /\ pendingAgentId' = a
  /\ latestMatchId' = nMatches + 1
  /\ joins' = [joins EXCEPT ![a] =
       [pc |-> "recordMatch", matchId |-> nMatches + 1, pendingAgentId |-> 0]]
  /\ act' = Act("hold", a, Absent)
  /\ UNCHANGED <<events, waiters, inits, matches, matchPlayers, enq, ret, answered>>

\* POST /queue arrives with x-agent-id a: lines 39-42 and one of the branches.
Join(a) ==
  /\ joins[a].pc = "idle"
  /\ UNCHANGED <<moveVars, actorVars, authVars, toolVars>>
  /\ \/ Rejoin(a)
     \/ Pair(a)
     \/ Hold(a)

\* Lines 138-166: recordMatch and recordMatchPlayers run their D1 statements
\* inside try/catch and log the error, so they return whether or not D1
\* stored the rows (dbOk).
ReturnsOnlyIfStored(dbOk) == dbOk

Returns(dbOk) == TRUE

\* The handler of a's join ends with an exception thrown out of fetch.
Aborted(a) ==
  /\ joins' = [joins EXCEPT ![a] = Idle]
  /\ act' = Act("aborted", a, [status |-> 500])
  /\ UNCHANGED <<waiters, events, enq, ret, answered>>

\* Lines 92-95 and 138-148: recordMatch is over, with the row stored or not;
\* the join is answered waiting.
recordMatch(a, dbOk) ==
  /\ joins[a].pc = "recordMatch"
  /\ matches' = IF dbOk THEN matches \cup {joins[a].matchId} ELSE matches
  /\ IF Returns(dbOk)
     THEN /\ joins' = [joins EXCEPT ![a] = Idle]
          /\ answered' = answered \cup {Answer(a, joins[a].matchId, "waiting")}
          /\ act' = Act("waiting", a, [matchId |-> joins[a].matchId, status |-> "waiting"])
          /\ UNCHANGED <<waiters, events, enq, ret>>
     ELSE Aborted(a)
  /\ UNCHANGED <<pendingMatchId, pendingAgentId, latestMatchId,
                 nMatches, inits, matchPlayers, moveVars, actorVars, authVars, toolVars>>

\* recordMatch with a D1 that stores the row.
MatchRecorded(a) == recordMatch(a, TRUE)

\* Lines 60-71: stub.fetch has returned (its answer is not looked at), and
\* recordMatchPlayers awaits D1.
InitReturned(a) ==
  /\ joins[a].pc = "init"
  /\ joins' = [joins EXCEPT ![a].pc = "recordMatchPlayers"]
  /\ act' = Act("init", a, Absent)
  /\ UNCHANGED <<pendingMatchId, pendingAgentId, latestMatchId, events, waiters,
                 nMatches, inits, matches, matchPlayers, enq, ret, answered, moveVars, actorVars, authVars, toolVars>>

\* Lines 71-85: recordMatchPlayers has returned; both match_found events are
\* enqueued and the join is answered ready.
recordMatchPlayers(a, dbOk) ==
  LET m == joins[a].matchId
      p == joins[a].pendingAgentId
      q1 == enqueueEvent(Queues, p, buildMatchFoundEvent(m, a))
      q2 == enqueueEvent(q1, a, buildMatchFoundEvent(m, p))
      players == Players(p, a)
  IN /\ joins[a].pc = "recordMatchPlayers"
     /\ matchPlayers' =
          IF dbOk
          THEN matchPlayers \cup
                 {[matchId |-> m, agentId |-> players[1], seat |-> 0,
                   startingRating |-> getRating(players[1])],
                  [matchId |-> m, agentId |-> players[2], seat |-> 1,
                   startingRating |-> getRating(players[2])]}
          ELSE matchPlayers
     /\ IF Returns(dbOk)
        THEN /\ waiters' = q2.waiters
             /\ events' = q2.events
             /\ enq' = q2.enq
             /\ ret' = q2.ret
             /\ joins' = [joins EXCEPT ![a] = Idle]
             /\ answered' = answered \cup {Answer(a, m, "ready")}
             /\ act' = Act("ready", a, [matchId |-> m, status |-> "ready"])
        ELSE Aborted(a)
     /\ UNCHANGED <<pendingMatchId, pendingAgentId, latestMatchId, nMatches, inits, matches,
                    moveVars, actorVars, authVars, toolVars>>

\* recordMatchPlayers with a D1 that stores the rows.
PlayersRecorded(a) == recordMatchPlayers(a, TRUE)

(***************************************************************************)
(* MatchmakerDO.fetch, GET /events/wait.                                   *)
(***************************************************************************)
\* Lines 201-207: the buffer is not empty; its front is returned.
TakeEvent(a) ==
  /\ events[a] # <<>>
  /\ events' = [events EXCEPT ![a] = PopEvent(@).rest]
  /\ ret' = [ret EXCEPT ![a] = Append(@, PopEvent(events[a]).next)]
  /\ act' = Act("take", a, PopEvent(events[a]).next)
  /\ UNCHANGED waiters

\* Lines 209-226: the buffer is empty; a resolver and its timer are set up.
\* The model has no clock: a timer may fire in any later step, and a timer
\* of 0 ms is one that is due from the step that arms it.
Suspend(a, timeoutSeconds, watched) ==
  /\ events[a] = <<>>
  /\ Len(waiters[a]) < Cardinality(WaiterSlots)
  /\ waiters' = [waiters EXCEPT ![a] = Append(@, Resolver(watched))]
  /\ act' = Act("suspend", a, [timeoutSeconds |-> timeoutSeconds,
                               timeoutMs |-> TimeoutMs(timeoutSeconds)])
  /\ UNCHANGED <<events, ret>>

waitForEvent(a, timeoutSeconds, watched) ==
  /\ \/ TakeEvent(a)
     \/ Suspend(a, timeoutSeconds, watched)
  /\ UNCHANGED <<pendingMatchId, pendingAgentId, latestMatchId, joins, nMatches, inits,
                 matches, matchPlayers, enq, answered, moveVars, actorVars, authVars, toolVars>>

\* Lines 212-215: the timer of the agent's i-th resolver fires.  A caller that
\* is still there is answered no_events.
Timeout(a, i) ==
  /\ i <= Len(waiters[a])
  /\ waiters' = [waiters EXCEPT ![a] = removeWaiter(@, i)]
  /\ act' = Act("timeout", a, IF waiters[a][i].gone THEN Absent ELSE buildNoEventsEvent)
  /\ UNCHANGED <<pendingMatchId, pendingAgentId, latestMatchId, events, joins, nMatches,
                 inits, matches, matchPlayers, enq, ret, answered, moveVars, actorVars, authVars, toolVars>>

\* The caller of a suspended call disconnects.  waitForEvent listens for no
\* abort: the resolver stays in this.waiters until it is resolved or timed out.
Disconnect(a, i) ==
  /\ i <= Len(waiters[a])
  /\ ~waiters[a][i].gone
  /\ waiters' = [waiters EXCEPT ![a][i].gone = TRUE]
  /\ act' = Act("disconnect", a, Absent)
  /\ UNCHANGED <<pendingMatchId, pendingAgentId, latestMatchId, events, joins, nMatches,
                 inits, matches, matchPlayers, enq, ret, answered, moveVars, actorVars, authVars, toolVars>>

\* DELETE /queue/leave, as routes/queue.ts sends it: fetch has no branch for
\* it and answers line 135, 404 Not found.
Leave(a) ==
  /\ act' = Act("leave", a, [status |-> 404, body |-> "Not found"])
  /\ UNCHANGED <<pendingMatchId, pendingAgentId, latestMatchId, events, waiters, joins,
                 nMatches, inits, matches, matchPlayers, enq, ret, answered, moveVars, actorVars, authVars, toolVars>>

QueueInit ==
  /\ pendingMatchId = 0
  /\ pendingAgentId = 0
  /\ latestMatchId = 0
  /\ events = [a \in Agents |-> <<>>]
  /\ waiters = [a \in Agents |-> <<>>]
  /\ joins = [a \in Agents |-> Idle]
  /\ nMatches = 0
  /\ inits = {}
  /\ matches = {}
  /\ matchPlayers = {}
  /\ enq = [a \in Agents |-> <<>>]
  /\ ret = [a \in Agents |-> <<>>]
  /\ answered = {}
  /\ act = [op |-> "none", agent |-> 0, response |-> Absent,
            pre |-> [pendingMatchId |-> 0, pendingAgentId |-> 0, latestMatchId |-> 0,
                     events |-> [a \in Agents |-> <<>>]]]

\* The joins of a run that allocates at most MaxMatches matchIds.
QueueJoin(a) ==
  /\ SlotHeld \/ nMatches < MaxMatches
  /\ Join(a)

\* Lines 98-116: GET /events/wait with x-agent-id a and some timeout parameter.
EventsWait(a) ==
  \E param \in TimeoutParams : waitForEvent(a, TimeoutSeconds(param), FALSE)

QueueNext ==
  \/ \E a \in Agents : QueueJoin(a)
  \/ \E a \in Agents : MatchRecorded(a)
  \/ \E a \in Agents : InitReturned(a)
  \/ \E a \in Agents : PlayersRecorded(a)
  \/ \E a \in Agents : EventsWait(a)
  \/ \E a \in Agents, i \in WaiterSlots : Timeout(a, i)
  \/ \E a \in Agents, i \in WaiterSlots : Disconnect(a, i)
  \/ \E a \in Agents : Leave(a)

\* The runs in which the return of one suspended call at a time is followed.
NoneWatched == \A a \in Agents : \A i \in 1..Len(waiters[a]) : ~waiters[a][i].watched

WatchedWait(a) ==
  \E param \in TimeoutParams, watched \in BOOLEAN :
    /\ watched => NoneWatched
    /\ waitForEvent(a, TimeoutSeconds(param), watched)

\* The caller of the followed call disconnects.
WatchedDisconnect(a, i) ==
  /\ i <= Len(waiters[a])
  /\ waiters[a][i].watched
  /\ Disconnect(a, i)

WaitJoin(a) ==
  /\ SlotHeld \/ nMatches < MaxWaitMatches
  /\ Join(a)

WaitNext ==
  \/ \E a \in Agents : WaitJoin(a)
  \/ \E a \in Agents : MatchRecorded(a)
  \/ \E a \in Agents : InitReturned(a)
  \/ \E a \in Agents : PlayersRecorded(a)
  \/ \E a \in Agents : WatchedWait(a)
  \/ \E a \in Agents, i \in WaiterSlots : Timeout(a, i)
  \/ \E a \in Agents, i \in WaiterSlots : WatchedDisconnect(a, i)

(***************************************************************************)
(* The runs that fill a buffer: agent 1 joins and agent 2 pairs with it,   *)
(* one join at a time, MaxBuffered times over; agent 1 calls waitEvents    *)
(* between pairings and agent 2 never does.                                *)
(***************************************************************************)
NoJoinInFlight == \A b \in Agents : joins[b].pc = "idle"

BufferJoin(a) ==
  /\ NoJoinInFlight
  /\ IF SlotHeld THEN a = 2 ELSE a = 1 /\ nMatches < MaxBuffered
  /\ Join(a)

BufferTake(a) ==
  /\ NoJoinInFlight
  /\ a = 1
  /\ events[a] # <<>>
  /\ waitForEvent(a, 30, FALSE)

BufferNext ==
  \/ \E a \in Agents : BufferJoin(a)
  \/ \E a \in Agents : MatchRecorded(a)
  \/ \E a \in Agents : InitReturned(a)
  \/ \E a \in Agents : PlayersRecorded(a)
  \/ \E a \in Agents : BufferTake(a)

(***************************************************************************)
(* The joins with a D1 that may fail at any insert.  An agent calls         *)
(* waitEvents only when its buffer holds an event.                          *)
(***************************************************************************)
FaultyTake(a) ==
  /\ events[a] # <<>>
  /\ waitForEvent(a, 30, FALSE)

FaultyNext ==
  \/ \E a \in Agents : QueueJoin(a)
  \/ \E a \in Agents, dbOk \in BOOLEAN : recordMatch(a, dbOk)
  \/ \E a \in Agents : InitReturned(a)
  \/ \E a \in Agents, dbOk \in BOOLEAN : recordMatchPlayers(a, dbOk)
  \/ \E a \in Agents : FaultyTake(a)

(***************************************************************************)
(* The match actor (spec 4.2 to 4.4 and 5).  One operation runs at a time   *)
(* and runs to its end, broadcast included, so each operation is one step;  *)
(* what a subscriber has been sent and what it has read differ, because     *)
(* reading is the subscriber's own step.                                    *)
(***************************************************************************)
ActorPlayers == <<1, 2>>
Spectator == 0
Subscribers == {Spectator, 1, 2}
SubIds == {1, 2}
ActorMoveIds == {1, 2}
NoWinner == 0

\* The move values, as far as the schema check and the engine tell them
\* apart: "malformed" is none of the action variants, "illegal" is refused by
\* engine.apply, "attack" applies and keeps the turn, "end_turn" applies and
\* passes the turn, "capture" applies and ends the game for the mover.
ActorMoves == {"malformed", "illegal", "attack", "end_turn", "capture"}

Other(agentId) == IF agentId = ActorPlayers[1] THEN ActorPlayers[2] ELSE ActorPlayers[1]

NewMatch ==
  [status |-> "active", stateVersion |-> 0, activeAgentId |-> ActorPlayers[1],
   winner |-> NoWinner, reason |-> "none", finalStateVersion |-> 0]

AlreadyEndedNever(m) == FALSE

AlreadyEnded(m) == m.status = "ended"

\* engine.apply on a move that it accepts.
EngineApply(m, move) ==
  [m EXCEPT !.stateVersion = @ + 1,
            !.activeAgentId = IF move = "end_turn" THEN Other(@) ELSE @]

EngineTerminal(move) == move = "capture"

\* submitMove, steps 2 to 6: the verdict on a moveId not answered before.
Verdict(m, agentId, expectedVersion, move) ==
  IF AlreadyEnded(m) THEN "terminal"
  ELSE IF agentId # m.activeAgentId THEN "not_your_turn"
  ELSE IF expectedVersion # m.stateVersion THEN "version_mismatch"
  ELSE IF move = "malformed" THEN "invalid_move_schema"
  ELSE IF move = "illegal" THEN "illegal_move"
  ELSE "ok"

\* The envelopes of spec 4.3; "to" is the agent a your_turn is targeted at.
StateEvent(m) == [event |-> "state", stateVersion |-> m.stateVersion]
EngineEvents(m, agentId) ==
  [event |-> "engine_events", stateVersion |-> m.stateVersion, agentId |-> agentId]
YourTurn(m) == [event |-> "your_turn", stateVersion |-> m.stateVersion, to |-> m.activeAgentId]
GameEnded(m) ==
  [event |-> "game_ended", winner |-> m.winner, reason |-> m.reason,
   finalStateVersion |-> m.finalStateVersion]

VisibleToAll(e, subscriber) == TRUE

VisibleTo(e, subscriber) == e.event = "your_turn" => subscriber = e.to

Visible(evs, subscriber) ==
  LET Mine(e) == VisibleTo(e, subscriber) IN SelectSeq(evs, Mine)

QueuedFirst(pending, evs) == evs \o pending

Queued(pending, evs) == pending \o evs

\* Fan-out of a batch of events to one subscription: a subscription that
\* would hold more than QueueThreshold unread events is dropped.
SendTo(sub, evs) ==
  IF sub.status # "open" THEN sub
  ELSE LET q == Queued(sub.pending, Visible(evs, sub.agentId)) IN
       IF Len(q) > QueueThreshold
       THEN [sub EXCEPT !.status = "dropped", !.pending = <<>>]
       ELSE [sub EXCEPT !.pending = q]

Broadcast(ss, evs) == [s \in SubIds |-> SendTo(ss[s], evs)]

CloseAll(ss) ==
  [s \in SubIds |-> IF ss[s].status = "open" THEN [ss[s] EXCEPT !.status = "closed"] ELSE ss[s]]

\* Cancel the current turn timer and arm one for the new state.
ArmTimerKeep(ts, m) == ts \cup {[stateVersion |-> m.stateVersion, agentId |-> m.activeAgentId]}

ArmTimer(ts, m) == {[stateVersion |-> m.stateVersion, agentId |-> m.activeAgentId]}

Ended(m, winner, reason) ==
  [m EXCEPT !.status = "ended", !.winner = winner, !.reason = reason,
            !.finalStateVersion = m.stateVersion]

\* recordMatchResult: INSERT OR IGNORE on the primary key, the matchId (one
\* match is modelled, so any row has it).
RecordMatchResult(rows, m) ==
  IF rows # <<>> THEN rows
  ELSE <<[winner |-> m.winner,
          loser |-> IF m.winner = NoWinner THEN NoWinner ELSE Other(m.winner),
          reason |-> m.reason]>>

UpdateLeaderboardWinnerOnly(lb, m) == [p \in DOMAIN lb |-> IF p = m.winner THEN lb[p] + 1 ELSE lb[p]]

UpdateLeaderboard(lb, m) == [p \in DOMAIN lb |-> lb[p] + 1]

\* Termination (spec 4.2.4) of the match in state m, as winner/reason say.
\* committed: whether the batch of recordMatchResult and updateLeaderboard
\* went through within its retries; if it did not, the match still ends in
\* memory and game_ended is still emitted (spec 5, failure isolation).
Terminate(m, before, winner, reason, committed) ==
  LET e == Ended(m, winner, reason) IN
  /\ match' = e
  /\ timers' = {}
  /\ results' = IF committed THEN RecordMatchResult(results, e) ELSE results
  /\ leaderboard' = IF committed THEN UpdateLeaderboard(leaderboard, e) ELSE leaderboard
  /\ log' = log \o before \o <<GameEnded(e)>>
  /\ subs' = CloseAll(Broadcast(subs, before \o <<GameEnded(e)>>))

\* key: the moveId of a move, the stateVersion a timer was armed against, the
\* subscription of a subscriber's step.
\* committed: whether the persistence batch of the operation, if it ran one,
\* went through.
Done(op, agentId, key, result, committed) ==
  [op |-> op, agentId |-> agentId, key |-> key, result |-> result,
   committed |-> committed, before |-> match]

\* submitMove, step 1: the moveId has a stored response, which is returned.
ReplayMove(agentId, moveId) ==
  /\ responses[moveId] # Absent
  /\ done' = Done("replay", agentId, moveId, responses[moveId], TRUE)
  /\ UNCHANGED <<match, timers, log, subs, results, leaderboard, responses>>

\* submitMove, steps 2 to 5: a rejection, stored under the moveId (step 7).
RejectActorMove(agentId, moveId, verdict) ==
  LET response == [result |-> verdict, stateVersion |-> match.stateVersion] IN
  /\ responses' = [responses EXCEPT ![moveId] = response]
  /\ done' = Done("move", agentId, moveId, response, TRUE)
  /\ UNCHANGED <<match, timers, log, subs, results, leaderboard>>

\* submitMove, step 6 on {ok, state', events}, and step 7.
ApplyActorMove(agentId, moveId, move, committed) ==
  LET m == EngineApply(match, move)
      evs == <<StateEvent(m), EngineEvents(m, agentId)>>
               \o (IF m.activeAgentId # match.activeAgentId THEN <<YourTurn(m)>> ELSE <<>>)
      response == [result |-> "ok", stateVersion |-> m.stateVersion]
  IN
  /\ match.stateVersion < MaxStateVersion
  /\ IF EngineTerminal(move)
     THEN Terminate(m, evs, agentId, "terminal", committed)
     ELSE /\ committed
          /\ match' = m
          /\ timers' = ArmTimer(timers, m)
          /\ log' = log \o evs
          /\ subs' = Broadcast(subs, evs)
          /\ UNCHANGED <<results, leaderboard>>
  /\ responses' = [responses EXCEPT ![moveId] = response]
  /\ done' = Done("move", agentId, moveId, response, committed)

submitMove(agentId, moveId, expectedVersion, move, committed) ==
  /\ UNCHANGED <<moveVars, queueVars, authVars, toolVars>>
  /\ IF responses[moveId] # Absent
     THEN committed /\ ReplayMove(agentId, moveId)
     ELSE LET verdict == Verdict(match, agentId, expectedVersion, move) IN
          IF verdict = "ok"
          THEN ApplyActorMove(agentId, moveId, move, committed)
          ELSE committed /\ RejectActorMove(agentId, moveId, verdict)

\* The armed timer t expires (spec 4.2.3): a synthetic turn_timeout forfeit
\* of the active agent.
TimerExpires(t, committed) ==
  /\ t \in timers
  /\ UNCHANGED <<moveVars, queueVars, authVars, toolVars, responses>>
  /\ done' = Done("timer", t.agentId, t.stateVersion, "turn_timeout", committed)
  /\ IF AlreadyEnded(match)
     THEN /\ committed
          /\ timers' = timers \ {t}
          /\ UNCHANGED <<match, log, subs, results, leaderboard>>
     ELSE Terminate(match, <<>>, Other(match.activeAgentId), "turn_timeout", committed)

\* finish(reason) (spec 4.2.5).
finish(reason, committed) ==
  /\ UNCHANGED <<moveVars, queueVars, authVars, toolVars, responses>>
  /\ IF AlreadyEnded(match)
     THEN /\ committed
          /\ done' = Done("finish", 0, 0, "already_ended", TRUE)
          /\ UNCHANGED <<match, timers, log, subs, results, leaderboard>>
     ELSE /\ done' = Done("finish", 0, 0, "ok", committed)
          /\ Terminate(match, <<>>, NoWinner, reason, committed)

\* subscribe(agentId?) (spec 4.2.1): an immediate state snapshot, and a
\* your_turn if the subscriber is the active agent.
Greeting(m, subscriber) ==
  <<StateEvent(m)>> \o (IF AlreadyEnded(m) THEN <<>> ELSE Visible(<<YourTurn(m)>>, subscriber))

NoSub ==
  [status |-> "none", agentId |-> Spectator, from |-> 0, snapshot |-> <<>>,
   pending |-> <<>>, seen |-> <<>>]

subscribe(s, subscriber) ==
  /\ subs[s].status \in {"none", "dropped"}
  /\ subs' = [subs EXCEPT ![s] =
       [status |-> IF AlreadyEnded(match) THEN "closed" ELSE "open",
        agentId |-> subscriber, from |-> Len(log),
        snapshot |-> Greeting(match, subscriber), pending |-> <<>>, seen |-> <<>>]]
  /\ done' = Done("subscribe", subscriber, s, "ok", TRUE)
  /\ UNCHANGED <<match, timers, log, results, leaderboard, responses, moveVars, queueVars, authVars, toolVars>>

\* The subscriber of s reads the next event sent to it.
Read(s) ==
  /\ subs[s].status \in {"open", "closed"}
  /\ subs[s].pending # <<>>
  /\ subs' = [subs EXCEPT ![s].seen = Append(@, Head(subs[s].pending)),
                          ![s].pending = Tail(@)]
  /\ done' = Done("read", subs[s].agentId, s, "ok", TRUE)
  /\ UNCHANGED <<match, timers, log, results, leaderboard, responses, moveVars, queueVars, authVars, toolVars>>

FinishReasons == {"forfeit"}

ActorInit ==
  /\ match = NewMatch
  /\ timers = ArmTimer({}, NewMatch)
  /\ log = <<>>
  /\ subs = [s \in SubIds |-> NoSub]
  /\ results = <<>>
  /\ leaderboard = [p \in {ActorPlayers[1], ActorPlayers[2]} |-> 0]
  /\ responses = [id \in ActorMoveIds |-> Absent]
  /\ done = [op |-> "init", agentId |-> 0, key |-> 0, result |-> "ok", committed |-> TRUE,
             before |-> NewMatch]

\* The actor with every kind of submission and with persistence failures,
\* watched through one subscription.
ActorNext ==
  \/ \E agentId \in {1, 2}, moveId \in ActorMoveIds, expectedVersion \in 0..MaxStateVersion,
        move \in ActorMoves, committed \in BOOLEAN :
       submitMove(agentId, moveId, expectedVersion, move, committed)
  \/ \E t \in timers, committed \in BOOLEAN : TimerExpires(t, committed)
  \/ \E reason \in FinishReasons, committed \in BOOLEAN : finish(reason, committed)
  \/ \E subscriber \in Subscribers : subscribe(1, subscriber)
  \/ Read(1)

\* The actor watched through every subscription: the submissions are those
\* of clients that know the stateVersion and send moves the engine applies,
\* and persistence works.
StreamNext ==
  \/ \E agentId \in {1, 2}, moveId \in ActorMoveIds, move \in {"attack", "end_turn", "capture"} :
       submitMove(agentId, moveId, match.stateVersion, move, TRUE)
  \/ \E t \in timers : TimerExpires(t, TRUE)
  \/ \E reason \in FinishReasons : finish(reason, TRUE)
  \/ \E s \in SubIds, subscriber \in Subscribers : subscribe(s, subscriber)
  \/ \E s \in SubIds : Read(s)

(***************************************************************************)
(* The auth routes: POST /register, POST /verify, GET /me.  Each D1        *)
(* statement is awaited, so a handler is one step per statement.            *)
(***************************************************************************)
AgentIds == Agents          \* crypto.randomUUID(): the ids registrations get
Names == {1, 2}             \* the names the clients register, all well-formed
Null == 0                   \* verified_at NULL; datetime('now') is 1 or more
HandlerSlots == {1, 2}      \* the handlers of one route in flight at a time

\* sha256Hex(`${pepper}${value}`)
sha256Hex(value) == [sha256 |-> value]

\* `fc_claim_${randomBase64Url(9)}`: the claim code made for the agent id.
ClaimCode(id) == [random |-> id, padded |-> FALSE]

\* The bodies POST /verify is sent: no JSON object of one string claimCode,
\* or a claim code (0: one that no registration made), space around it or not.
VerifyBodies ==
  {[valid |-> FALSE, claimCode |-> ClaimCode(0)]}
    \cup {[valid |-> TRUE, claimCode |-> [random |-> r, padded |-> p]] :
            r \in {0} \cup AgentIds, p \in BOOLEAN}

\* parsed.data.claimCode.trim()
Trim(code) == [code EXCEPT !.padded = FALSE]

Row(name, claimCode) ==
  [name |-> name, claimCodeHash |-> sha256Hex(claimCode), verifiedAt |-> Null]

\* SELECT ... FROM agents WHERE name = ?
NameInUse(name) == \E id \in AgentIds : agents[id] # Absent /\ agents[id].name = name

\* SELECT id, verified_at FROM agents WHERE claim_code_hash = ? LIMIT 1
ByClaimHash(hash) == {id \in AgentIds : agents[id] # Absent /\ agents[id].claimCodeHash = hash}

FreeIds ==
  {id \in AgentIds : agents[id] = Absent /\ \A r \in HandlerSlots : regs[r].id # id}

\* A handler in flight: where it is, the agent id it works on, what it was sent.
NoHandler == [pc |-> "idle", id |-> 0, sent |-> 0]

AuthAct(op, agent, sent, status, body) ==
  [op |-> op, agent |-> agent, sent |-> sent, status |-> status, body |-> body]

AuthRequest ==
  /\ nAuth < MaxAuthRequests
  /\ nAuth' = nAuth + 1

\* POST /register, lines 37-58: the payload is refused, or the name is in
\* use, or the handler goes on to make the ids, the key and the claim code.
RegisterBegin(r, name) ==
  /\ AuthRequest
  /\ regs[r] = NoHandler
  /\ FreeIds # {}
  /\ IF name \notin Names
     THEN /\ authAct' = AuthAct("register", 0, name, 400, Absent)
          /\ UNCHANGED regs
     ELSE IF NameInUse(name)
     THEN /\ authAct' = AuthAct("register", 0, name, 409, Absent)
          /\ UNCHANGED regs
     ELSE /\ regs' = [regs EXCEPT ![r] =
                        [pc |-> "insert", id |-> CHOOSE id \in FreeIds : \A o \in FreeIds : id <= o,
                         sent |-> name]]
          /\ UNCHANGED authAct
  /\ UNCHANGED <<agents, verifies, clock, issued, verified200, moveVars, queueVars, actorVars, toolVars>>

\* agents(id pk, name unique): the insert of a name in use is refused.
UniqueName(name) == ~NameInUse(name)

\* POST /register, lines 72-93: the batch insert, which throws when D1 fails.
RegisterInsert(r, dbOk) ==
  LET id == regs[r].id
      stored == dbOk /\ UniqueName(regs[r].sent)
  IN /\ regs[r].pc = "insert"
     /\ regs' = [regs EXCEPT ![r] = NoHandler]
     /\ agents' = IF stored
                    THEN [agents EXCEPT ![id] = Row(regs[r].sent, ClaimCode(id))]
                    ELSE agents
     /\ issued' = IF stored THEN issued \cup {[agentId |-> id, claimCode |-> ClaimCode(id)]}
                            ELSE issued
     /\ authAct' = IF stored
                     THEN AuthAct("register", id, regs[r].sent, 201,
                                  [id |-> id, verified |-> FALSE, claimCode |-> ClaimCode(id)])
                     ELSE AuthAct("register", 0, regs[r].sent, 503, Absent)
     /\ UNCHANGED <<verifies, clock, verified200, nAuth, moveVars, queueVars, actorVars, toolVars>>

\* requireAdminKey: the x-admin-key header must be the ADMIN_KEY.
requireAdminKey(adminKey) == adminKey

\* POST /verify, lines 95-119: the admin key, the payload, and the row that
\* has the hash of the trimmed claim code.
VerifyBegin(v, adminKey, body) ==
  LET found == ByClaimHash(sha256Hex(Trim(body.claimCode)))
      id == CHOOSE id \in found : TRUE
  IN /\ AuthRequest
     /\ verifies[v] = NoHandler
     /\ IF ~requireAdminKey(adminKey)
        THEN /\ authAct' = AuthAct("verify", 0, body, 403, Absent)
             /\ UNCHANGED verifies
        ELSE IF ~body.valid
        THEN /\ authAct' = AuthAct("verify", 0, body, 400, Absent)
             /\ UNCHANGED verifies
        ELSE IF found = {}
        THEN /\ authAct' = AuthAct("verify", 0, body, 404, Absent)
             /\ UNCHANGED verifies
        ELSE IF agents[id].verifiedAt # Null
        THEN /\ authAct' = AuthAct("verify", id, body, 409, Absent)
             /\ UNCHANGED verifies
        ELSE /\ verifies' = [verifies EXCEPT ![v] = [pc |-> "update", id |-> id, sent |-> body]]
             /\ UNCHANGED authAct
     /\ UNCHANGED <<agents, regs, clock, issued, verified200, moveVars, queueVars, actorVars, toolVars>>

AnyRow(row) == TRUE

\* ... WHERE id = ? AND verified_at IS NULL
StillNull(row) == row.verifiedAt = Null

\* POST /verify, lines 121-125: UPDATE agents SET verified_at = datetime('now').
VerifyUpdate(v) ==
  LET id == verifies[v].id IN
  /\ verifies[v].pc = "update"
  /\ clock' = clock + 1
  /\ agents' = IF StillNull(agents[id])
                 THEN [agents EXCEPT ![id].verifiedAt = clock + 1]
                 ELSE agents
  /\ verifies' = [verifies EXCEPT ![v].pc = "select"]
  /\ UNCHANGED <<regs, issued, verified200, nAuth, authAct, moveVars, queueVars, actorVars, toolVars>>

\* POST /verify, lines 127-136: SELECT verified_at, and the answer.
VerifyReturn(v) ==
  LET id == verifies[v].id IN
  /\ verifies[v].pc = "select"
  /\ verifies' = [verifies EXCEPT ![v] = NoHandler]
  /\ verified200' = verified200 \cup {id}
  /\ authAct' = AuthAct("verify", id, verifies[v].sent, 200, [agentId |-> id, verifiedAt |-> agents[id].verifiedAt])
  /\ UNCHANGED <<agents, regs, clock, issued, nAuth, moveVars, queueVars, actorVars, toolVars>>

NeverVerified(verifiedAt) == FALSE

\* Boolean(row.verified_at)
Boolean(verifiedAt) == verifiedAt # Null

\* GET /me of the agent the bearer key belongs to, lines 139-166.
Me(a) ==
  /\ AuthRequest
  /\ authAct' = IF agents[a] = Absent
                  THEN AuthAct("me", a, a, 401, Absent)
                  ELSE AuthAct("me", a, a, 200,
                               [id |-> a, verified |-> Boolean(agents[a].verifiedAt),
                                verifiedAt |-> agents[a].verifiedAt])
  /\ UNCHANGED <<agents, regs, verifies, clock, issued, verified200, moveVars, queueVars, actorVars, toolVars>>

AuthInit ==
  /\ agents = [id \in AgentIds |-> Absent]
  /\ regs = [r \in HandlerSlots |-> NoHandler]
  /\ verifies = [v \in HandlerSlots |-> NoHandler]
  /\ clock = 0
  /\ issued = {}
  /\ verified200 = {}
  /\ nAuth = 0
  /\ authAct = AuthAct("none", 0, 0, 0, Absent)

AuthNext ==
  \/ \E r \in HandlerSlots, name \in Names \cup {0} : RegisterBegin(r, name)
  \/ \E r \in HandlerSlots, dbOk \in BOOLEAN : RegisterInsert(r, dbOk)
  \/ \E v \in HandlerSlots, adminKey \in BOOLEAN, body \in VerifyBodies : VerifyBegin(v, adminKey, body)
  \/ \E v \in HandlerSlots : VerifyUpdate(v)
  \/ \E v \in HandlerSlots : VerifyReturn(v)
  \/ \E a \in AgentIds : Me(a)

(***************************************************************************)
(* The gameplay routes behind the verification gate: the queue join of     *)
(* routes/queue.ts and the move route in front of MatchDO.                  *)
(***************************************************************************)
PassesUnverified(a) ==
  IF agents[a] = Absent THEN 401 ELSE 0

\* The agent auth in front of the gameplay routes: 401 without an agent,
\* 403 for an agent whose verifiedAt is null, and 0 when the request goes on.
requireVerified(a) ==
  IF agents[a] = Absent THEN 401
  ELSE IF agents[a].verifiedAt = Null THEN 403
  ELSE 0

\* The path queueJoin asks the matchmaker for, and the paths it serves.
queueJoinPath == "/queue/join"
MatchmakerPaths == {"/queue", "/events/wait", "/live"}

\* What MatchmakerDO.fetch answers a POST of a path: outside the paths it
\* serves, the 404 of its last line, with nothing read or written.
MatchmakerFetch(path) ==
  IF path \in MatchmakerPaths THEN [status |-> 200] ELSE [status |-> 404]

\* POST /v1/matches/queue and POST /v1/queue/join of agent a.
GatedQueueJoin(a) ==
  LET refused == requireVerified(a) IN
  /\ AuthRequest
  /\ authAct' = AuthAct("join", a, queueJoinPath,
                        IF refused # 0 THEN refused ELSE MatchmakerFetch(queueJoinPath).status,
                        Absent)
  /\ UNCHANGED <<agents, regs, verifies, clock, issued, verified200, moveVars, queueVars, actorVars, toolVars>>

\* The move route of agent a: refused by the gate, or handed to MatchDO.
GatedMove(a, body) ==
  LET refused == requireVerified(a) IN
  /\ AuthRequest
  /\ IF refused # 0
       THEN /\ authAct' = AuthAct("move", a, body, refused, Absent)
            /\ UNCHANGED moveVars
       ELSE /\ authAct' = AuthAct("move", a, body, 0, Absent)
            /\ Received(body)
  /\ UNCHANGED <<agents, regs, verifies, clock, issued, verified200, queueVars, actorVars, toolVars>>

\* Agents that register and get verified one at a time, and their calls.
GateNext ==
  \/ \E name \in Names : RegisterBegin(1, name)
  \/ RegisterInsert(1, TRUE)
  \/ \E id \in AgentIds : VerifyBegin(1, TRUE, [valid |-> TRUE, claimCode |-> ClaimCode(id)])
  \/ VerifyUpdate(1)
  \/ VerifyReturn(1)
  \/ \E a \in AgentIds : GatedQueueJoin(a)
  \/ \E a \in AgentIds, id \in NextIds \ SentIds, v \in {0, 1} :
        GatedMove(a, Body(JsString(id), JsInt(v), JsObject("end_turn")))
  \/ \E req \in inflight : HandleMove(req)

(***************************************************************************)
(* utils/durable.ts: a fetch of a Durable Object stub that is retried when *)
(* the object was reset.  A message is the sequence of its words.  What    *)
(* stub.fetch gives is the runtime's choice: a response, or a thrown value.*)
(***************************************************************************)
ResetPhrase == <<"invalidating", "this", "Durable", "Object">>

\* String.prototype.includes
includes(message, phrase) ==
  \E i \in 0..(Len(message) - Len(phrase)) :
     SubSeq(message, i + 1, i + Len(phrase)) = phrase

\* The values a fetch may throw: whether it is a (non-null) object, whether
\* its durableObjectReset is true, whether its message is a string, the message.
Thrown ==
  { [object |-> FALSE, durableObjectReset |-> FALSE, isString |-> FALSE, message |-> <<>>],
    [object |-> TRUE, durableObjectReset |-> TRUE, isString |-> FALSE, message |-> <<>>],
    [object |-> TRUE, durableObjectReset |-> FALSE, isString |-> FALSE, message |-> <<>>],
    [object |-> TRUE, durableObjectReset |-> FALSE, isString |-> TRUE,
       message |-> <<"Network", "connection", "lost">>],
    [object |-> TRUE, durableObjectReset |-> FALSE, isString |-> TRUE,
       message |-> <<"Durable", "Object", "reset", "invalidating", "this",
                     "Durable", "Object", "instance">>] }

isDurableObjectResetError(error) ==
  IF ~error.object THEN FALSE
  ELSE IF error.durableObjectReset THEN TRUE
  ELSE LET message == IF error.isString THEN error.message ELSE <<>>
       IN  includes(message, ResetPhrase)

\* What one stub.fetch gave: the response of the n-th call, or a thrown value.
Response(n) == [ok |-> TRUE, call |-> n, error |-> Absent]
Rejection(error) == [ok |-> FALSE, call |-> 0, error |-> error]

RetryInit ==
  retry = [pc |-> "idle", retries |-> 0, attempt |-> 0, tried |-> <<>>, out |-> Absent]

\* A retry test that looks at the attempts only.
RethrowsWhenSpent(attempt, retries, error) == attempt >= retries

\* The catch clause's test: the error is thrown on.
Rethrows(attempt, retries, error) ==
  attempt >= retries \/ ~isDurableObjectResetError(error)

\* doFetchWithRetry(stub, input, init, retries): the call begins, attempt = 0.
doFetchWithRetry(retries) ==
  /\ retry.pc \in {"idle", "returned", "thrown"}
  /\ retry' = [pc |-> "fetching", retries |-> retries, attempt |-> 0,
               tried |-> <<>>, out |-> Absent]
  /\ UNCHANGED <<sim, moveVars, queueVars, actorVars, authVars>>

\* await stub.fetch(input, init) gives a response: it is returned.
FetchResolved ==
  /\ retry.pc = "fetching"
  /\ LET response == Response(Len(retry.tried) + 1)
     IN  retry' = [retry EXCEPT !.pc = "returned",
                                !.tried = Append(@, response),
                                !.out = response]
  /\ UNCHANGED <<sim, moveVars, queueVars, actorVars, authVars>>

\* await stub.fetch(input, init) throws: the catch clause.
FetchRejected(error) ==
  /\ retry.pc = "fetching"
  /\ IF Rethrows(retry.attempt, retry.retries, error)
     THEN retry' = [retry EXCEPT !.pc = "thrown",
                                 !.tried = Append(@, Rejection(error)),
                                 !.out = Rejection(error)]
     ELSE retry' = [retry EXCEPT !.pc = "sleeping",
                                 !.attempt = @ + 1,
                                 !.tried = Append(@, Rejection(error))]
  /\ UNCHANGED <<sim, moveVars, queueVars, actorVars, authVars>>

\* The timer of 10 * attempt milliseconds fires: the loop goes round.
RetryTimer ==
  /\ retry.pc = "sleeping"
  /\ retry' = [retry EXCEPT !.pc = "fetching"]
  /\ UNCHANGED <<sim, moveVars, queueVars, actorVars, authVars>>

RetryNext ==
  \/ \E retries \in 0..MaxRetries : doFetchWithRetry(retries)
  \/ FetchResolved
  \/ \E error \in Thrown : FetchRejected(error)
  \/ RetryTimer

(***************************************************************************)
(* The boardgame.io sim harness: playMatchBoardgameIO.  The engine is not  *)
(* among the sources: whether it accepts a move, and the state an ok *)
(* move gives, are its choice.  A match state is the player to move,       *)
(* whether the match has ended and who won it, and the actions remaining.  *)
(***************************************************************************)
playerIds == <<"p1", "p2">>
SimPlayers == {playerIds[1], playerIds[2]}
InvalidPolicies == {"skip", "stop_turn", "forfeit"}
NullWinner == "null"

MatchStates ==
  { s \in [current : SimPlayers, ended : BOOLEAN, winner : SimPlayers \cup {NullWinner},
           actionsRemaining : 0..MaxActions] :
      /\ ~s.ended => s.winner = NullWinner
      \* of an ended match the harness reads the winner only
      /\ s.ended => s.current = playerIds[1] /\ s.actionsRemaining = 0 }

\* Engine.createInitialState: a match that has not ended, with actions to take.
InitialStates == { s \in MatchStates : ~s.ended /\ s.actionsRemaining = MaxActions }

NoResult == [turns |-> 0, winner |-> NullWinner, illegalMoves |-> 0, reason |-> "none"]

SimInit ==
  sim = [pc |-> "idle", invalidPolicy |-> "skip", maxTurns |-> 0, turnIndex |-> 0,
         matchState |-> CHOOSE s \in InitialStates : TRUE, activeAgent |-> playerIds[1],
         planLeft |-> 0, turnComplete |-> FALSE,
         acceptedMoves |-> 0, illegalMoves |-> 0, completedTurns |-> 0,
         forfeitTriggered |-> FALSE, forfeitWinner |-> NullWinner,
         result |-> NoResult, firstRejected |-> Absent]

\* A forfeit that goes to the player whose move was rejected.
ForfeitToActive(activeAgent) == activeAgent

\* String(playerIds.find((id) => id !== activeAgent) ?? "")
ForfeitWinner(activeAgent) ==
  IF \E i \in 1..Len(playerIds) : playerIds[i] # activeAgent
  THEN playerIds[CHOOSE i \in 1..Len(playerIds) :
                   /\ playerIds[i] # activeAgent
                   /\ \A j \in 1..(i - 1) : playerIds[j] = activeAgent]
  ELSE ""

\* finalizeResult hands turns, winner, illegalMoves and reason on as given.
finalizeResult(turns, winner, illegalMoves, reason) ==
  [turns |-> turns, winner |-> winner, illegalMoves |-> illegalMoves, reason |-> reason]

\* The rejection the run met first: who was to move, and the match as it stood.
NoteRejected(s) ==
  IF s.firstRejected = Absent
  THEN [by |-> s.matchState.current, matchState |-> s.matchState,
        acceptedMoves |-> s.acceptedMoves]
  ELSE s.firstRejected

\* The run begins: client.start(), the counters at zero.
playMatchBoardgameIO(invalidPolicy, maxTurns, initial) ==
  /\ sim.pc \in {"idle", "done"}
  /\ sim' = [pc |-> "turn", invalidPolicy |-> invalidPolicy, maxTurns |-> maxTurns,
             turnIndex |-> 1, matchState |-> initial, activeAgent |-> initial.current,
             planLeft |-> 0, turnComplete |-> FALSE,
             acceptedMoves |-> 0, illegalMoves |-> 0, completedTurns |-> 0,
             forfeitTriggered |-> FALSE, forfeitWinner |-> NullWinner,
             result |-> NoResult, firstRejected |-> Absent]
  /\ UNCHANGED <<retry, moveVars, queueVars, actorVars, authVars>>

\* The result after the turn loop: forfeit, terminal, or maxTurns.
FinalResult(s, engineWinner) ==
  IF s.forfeitTriggered
  THEN finalizeResult(s.completedTurns, s.forfeitWinner, s.illegalMoves, "illegal")
  ELSE IF s.matchState.ended
       THEN finalizeResult(s.completedTurns, s.matchState.winner, s.illegalMoves, "terminal")
       ELSE finalizeResult(s.maxTurns, engineWinner, s.illegalMoves, "maxTurns")

\* The head of the turn loop: the loop is over, or the match has ended, or
\* the bot of the player to move gives its plan (of planLength moves).
TurnBegin(planLength, engineWinner) ==
  /\ sim.pc = "turn"
  /\ IF sim.turnIndex > sim.maxTurns
     THEN sim' = [sim EXCEPT !.pc = "done", !.result = FinalResult(sim, engineWinner)]
     ELSE IF sim.matchState.ended
     THEN sim' = [sim EXCEPT !.pc = "done",
                    !.result = finalizeResult(sim.completedTurns, sim.matchState.winner,
                                              sim.illegalMoves, "terminal")]
     ELSE sim' = [sim EXCEPT !.pc = IF planLength = 0 THEN "close" ELSE "moves",
                    !.activeAgent = sim.matchState.current,
                    !.planLeft = planLength,
                    !.turnComplete = FALSE]
  /\ UNCHANGED <<retry, moveVars, queueVars, actorVars, authVars>>

\* One round of the loop over plan.moves: the move is checked by the engine
\* (accepted or not) and, if accepted, applied (giving next).
PlanMove(ok, next) ==
  /\ sim.pc = "moves"
  /\ LET more == IF sim.planLeft > 1 THEN "moves" ELSE "close"
     IN
     IF sim.matchState.ended \/ sim.matchState.current # sim.activeAgent
     THEN sim' = [sim EXCEPT !.pc = "close", !.turnComplete = TRUE]
     ELSE IF ~ok
     THEN IF sim.invalidPolicy = "forfeit"
          THEN sim' = [sim EXCEPT !.pc = "close",
                         !.illegalMoves = @ + 1,
                         !.forfeitTriggered = TRUE,
                         !.forfeitWinner = ForfeitWinner(sim.activeAgent),
                         !.turnComplete = TRUE,
                         !.firstRejected = NoteRejected(sim)]
          ELSE IF sim.invalidPolicy = "stop_turn"
          THEN sim' = [sim EXCEPT !.pc = "close",
                         !.illegalMoves = @ + 1,
                         !.turnComplete = TRUE,
                         !.firstRejected = NoteRejected(sim)]
          ELSE sim' = [sim EXCEPT !.pc = more,
                         !.illegalMoves = @ + 1,
                         !.planLeft = @ - 1,
                         !.firstRejected = NoteRejected(sim)]
     ELSE IF next.current # sim.activeAgent
     THEN sim' = [sim EXCEPT !.pc = "close",
                    !.matchState = next,
                    !.acceptedMoves = @ + 1,
                    !.turnComplete = TRUE]
     ELSE sim' = [sim EXCEPT !.pc = more,
                    !.matchState = next,
                    !.acceptedMoves = @ + 1,
                    !.planLeft = @ - 1]
  /\ UNCHANGED <<retry, moveVars, queueVars, actorVars, authVars>>

\* stillActive: the turn of the active player is still open.
stillActive(s) ==
  /\ ~s.matchState.ended
  /\ s.matchState.current = s.activeAgent
  /\ s.matchState.actionsRemaining > 0

\* After the plan: the forced end_turn (checked by the engine: accepted or
\* not, giving next), then the run breaks off on a forfeit, or the turn is
\* counted and the loop goes round.
TurnClose(ok, next) ==
  /\ sim.pc = "close"
  /\ LET forced ==
           IF sim.forfeitTriggered \/ ~stillActive(sim) THEN sim
           ELSE IF ok
           THEN [sim EXCEPT !.matchState = next,
                            !.acceptedMoves = @ + 1,
                            !.turnComplete = TRUE]
           ELSE [sim EXCEPT !.illegalMoves = @ + 1,
                            !.forfeitTriggered = (sim.invalidPolicy = "forfeit"),
                            !.forfeitWinner = IF sim.invalidPolicy = "forfeit"
                                                THEN ForfeitWinner(sim.activeAgent)
                                                ELSE @,
                            !.turnComplete = (sim.invalidPolicy = "stop_turn") \/ @,
                            !.firstRejected = NoteRejected(sim)]
     IN  IF forced.forfeitTriggered
         THEN sim' = [forced EXCEPT !.pc = "done",
                                    !.result = FinalResult(forced, NullWinner)]
         ELSE sim' = [forced EXCEPT !.pc = "turn",
                                    !.completedTurns = forced.turnIndex,
                                    !.turnIndex = @ + 1]
  /\ UNCHANGED <<retry, moveVars, queueVars, actorVars, authVars>>

SimNext ==
  \/ \E invalidPolicy \in InvalidPolicies, maxTurns \in 1..MaxTurns, initial \in InitialStates :
        playMatchBoardgameIO(invalidPolicy, maxTurns, initial)
  \/ \E planLength \in 0..MaxPlan, engineWinner \in SimPlayers \cup {NullWinner} :
        TurnBegin(planLength, engineWinner)
  \/ \E ok \in BOOLEAN, next \in MatchStates : PlanMove(ok, next)
  \/ \E ok \in BOOLEAN, next \in MatchStates : TurnClose(ok, next)

(***************************************************************************)
(* The specifications: one object at a time, the other left as created.    *)
(***************************************************************************)
Init == MoveInit /\ QueueInit /\ ActorInit /\ AuthInit /\ RetryInit /\ SimInit

ActorSpec == Init /\ [][ActorNext]_vars
StreamSpec == Init /\ [][StreamNext]_vars
FaultySpec == Init /\ [][FaultyNext]_vars
AuthSpec == Init /\ [][AuthNext]_vars
GateSpec == Init /\ [][GateNext]_vars

\* The runtime settles an awaited fetch and fires an armed timer.
RetryFairness ==
  /\ WF_vars(FetchResolved \/ \E error \in Thrown : FetchRejected(error))
  /\ WF_vars(RetryTimer)

SimSpec == Init /\ [][SimNext]_vars
RetrySpec == Init /\ [][RetryNext]_vars /\ RetryFairness

MoveSpec == Init /\ [][MoveNext]_vars
EndSpec == Init /\ [][EndNext]_vars
QueueSpec == Init /\ [][QueueNext]_vars
BufferSpec == Init /\ [][BufferNext]_vars

\* What the runtime and the agents keep doing: an awaited fetch or query
\* returns, an armed timer fires, and an agent keeps calling waitEvents.
QueueFairness ==
  \A a \in Agents :
    /\ WF_vars(MatchRecorded(a))
    /\ WF_vars(InitReturned(a))
    /\ WF_vars(PlayersRecorded(a))
    /\ WF_vars(EventsWait(a))
    /\ \A i \in WaiterSlots : WF_vars(Timeout(a, i))

FairQueueSpec == Init /\ [][QueueNext]_vars /\ QueueFairness

\* An armed timer fires.
TimerFairness == \A a \in Agents, i \in WaiterSlots : WF_vars(Timeout(a, i))

WaitSpec == Init /\ [][WaitNext]_vars /\ TimerFairness

(***************************************************************************)
(* Properties of MatchDO (MoveSpec).                                       *)
(***************************************************************************)
VersionOf(s) == IF s = Absent THEN 0 ELSE s.stateVersion
LoadedTurn(s) == IF s = Absent THEN 0 ELSE s.turn

LastIsMove == last # Absent /\ last.op = "move" /\ isMovePayload(last.body)

\* C1: every submission of moveId X with the arguments of the first
\* submission of X is answered with the status and body the first one was
\* answered with, only the first submission of X can change the stored
\* state, and the state is written at most once on account of X.
C1_SameMoveIdSameResponse ==
  /\ \A id \in MoveIds : applied[id] <= 1
  /\ LastIsMove =>
       LET f == first[last.body.moveId.n]
       IN /\ f # Absent
          /\ f.body = last.body =>
               /\ last.status = f.status
               /\ last.response = f.response
          /\ ~last.fresh => last.after = last.before

\* A resubmission of an accepted move, after another move has been accepted:
\* the answer is the first one's, stateVersion 1, while the state is at 2.
C1_Witness ==
  /\ LastIsMove
  /\ ~last.fresh
  /\ first[last.body.moveId.n].body = last.body
  /\ last.status = 200
  /\ last.response.state.stateVersion = 1
  /\ VersionOf(state) = 2

\* C25: once a response is recorded for moveId X, every later submission of
\* X, whatever expectedVersion and move it carries and whatever the state has
\* become, is answered with the recorded status and body and leaves the
\* state as it was; so a moveId rejected for a version mismatch stays
\* rejected when it is sent again with the version that is now current.
C25_RecordedResponseForever ==
  /\ \A id \in MoveIds : first[id] # Absent =>
        /\ idem[id] # Absent
        /\ idem[id].status = first[id].status
        /\ idem[id].body = first[id].response
  /\ (LastIsMove /\ ~last.fresh) =>
       /\ last.status = first[last.body.moveId.n].status
       /\ last.response = first[last.body.moveId.n].response
       /\ last.after = last.before

\* A moveId first rejected for a version mismatch was sent again with the
\* current version and another move, and was answered 409 again.
C25_Witness ==
  /\ LastIsMove
  /\ ~last.fresh
  /\ first[last.body.moveId.n].status = 409
  /\ first[last.body.moveId.n].body.move # last.body.move
  /\ last.body.expectedVersion.n = VersionOf(last.before)
  /\ VersionOf(last.before) > 0
  /\ last.status = 409

\* A step in which a request is answered as it arrives, with no await on
\* anything but storage: GET /state, or a POST /move with a malformed body.
AnsweredAtOnce(op) ==
  /\ nReq' = nReq + 1
  /\ inflight' = inflight
  /\ last'.op = op

\* C37: GET /state is read-only.  It changes neither the stored state nor
\* any idempotency record; it returns the stored state when there is one,
\* and else an initial state (stateVersion 0, turn 0, no last move) that it
\* does not store.
C37_GetStateReadOnly ==
  [][AnsweredAtOnce("state") =>
       /\ state' = state
       /\ idem' = idem
       /\ last'.status = 200
       /\ IF state # Absent
            THEN last'.response.state = state
            ELSE /\ last'.response.state.stateVersion = 0
                 /\ last'.response.state.turn = 0
                 /\ last'.response.state.lastMove = JsNull
    ]_vars

\* GET /state of a match that has no stored state although a move was
\* rejected and recorded: the initial state is returned and not stored.
C37_Witness ==
  /\ last # Absent
  /\ last.op = "state"
  /\ state = Absent
  /\ last.response.state.stateVersion = 0
  /\ \E id \in MoveIds : idem[id] # Absent

\* C38: a POST /move whose body is not a well-formed payload is answered 400
\* and stores nothing: the state and the idempotency records stay as they
\* were, every record belongs to a moveId that a well-formed submission was
\* handled for, and a well-formed submission of a moveId without a record
\* is handled as a first one (applied, or rejected for its version).
C38_MalformedStoresNothing ==
  /\ \A id \in MoveIds : idem[id] # Absent => first[id] # Absent
  /\ (LastIsMove /\ last.fresh) => last.status \in {200, 409}
  /\ [][(AnsweredAtOnce("move") /\ ~isMovePayload(last'.body)) =>
          /\ last'.status = 400
          /\ state' = state
          /\ idem' = idem
       ]_vars

\* A malformed body carrying moveId 1 was answered 400 while a well-formed
\* submission of moveId 1 is in flight and another move has been applied:
\* moveId 1 has no record.
C38_Witness ==
  /\ last # Absent
  /\ last.op = "move"
  /\ ~isMovePayload(last.body)
  /\ last.body.moveId = JsString(1)
  /\ last.status = 400
  /\ state # Absent
  /\ idem[1] = Absent
  /\ \E r \in inflight : r.body.moveId.n = 1

\* C2: stateVersion is the number of accepted moves; the versions returned
\* by the accepted moves are 1, 2, 3, ...; an accepted move raises
\* stateVersion by exactly 1 and every other request leaves it as it was.
C2_VersionCountsAcceptedMoves ==
  /\ VersionOf(state) = Len(accepted)
  /\ \A i \in 1..Len(accepted) : accepted[i] = i
  /\ last # Absent =>
       /\ state = last.after
       /\ IF last.op = "move" /\ last.fresh /\ last.status = 200
            THEN /\ VersionOf(last.after) = VersionOf(last.before) + 1
                 /\ last.response.state.stateVersion = VersionOf(last.after)
            ELSE last.after = last.before

\* Two moves accepted, then a rejected one.
C2_Witness ==
  /\ Len(accepted) = 2
  /\ LastIsMove
  /\ last.fresh
  /\ last.status = 409

\* C3: a fresh submission whose expectedVersion is not the current
\* stateVersion is answered 409 with the current stateVersion in the body,
\* and the stored state is what it was.
C3_VersionMismatchRejected ==
  (LastIsMove /\ last.fresh /\ last.body.expectedVersion.n # VersionOf(last.before)) =>
     /\ last.status = 409
     /\ last.response.ok = FALSE
     /\ last.response.stateVersion = VersionOf(last.before)
     /\ last.after = last.before
     /\ state = last.before

\* expectedVersion 0 against a state at version 1.
C3_Witness ==
  /\ LastIsMove
  /\ last.fresh
  /\ last.body.expectedVersion.n = 0
  /\ VersionOf(last.before) = 1
  /\ last.status = 409

\* The requests that were answered while the last one was in flight, with
\* another moveId and the same expectedVersion.
Rivals ==
  {o \in last.raced : /\ o.moveId # last.body.moveId.n
                      /\ o.expectedVersion = last.body.expectedVersion.n}

\* C4 as stated: of two submissions in flight together, with different
\* moveIds and the same expectedVersion, exactly one is accepted and the
\* other is rejected with a version mismatch.
C4_ExactlyOneOfTwoAccepted ==
  LastIsMove =>
    \A o \in Rivals :
      \/ o.status = 200 /\ last.status = 409
      \/ o.status = 409 /\ last.status = 200

\* C4 as amended: of two fresh submissions in flight together, with different
\* moveIds and the same expectedVersion, at most one is accepted (the second
\* is rejected when the first was accepted), one that is not accepted is
\* rejected with a version mismatch, and no two accepted moves were applied
\* to the same stateVersion.
C4_AtMostOneOfTwoAccepted ==
  /\ \A i, j \in 1..Len(accepted) : i # j => accepted[i] # accepted[j]
  /\ (LastIsMove /\ last.fresh) =>
       \A o \in Rivals :
         o.fresh =>
           /\ ~(o.status = 200 /\ last.status = 200)
           /\ o.status \in {200, 409}
           /\ last.status \in {200, 409}
           /\ o.status = 200 => last.status = 409

\* Two fresh submissions with expectedVersion 0 raced on a new match: the
\* first was accepted and the second rejected.
C4_Witness ==
  /\ LastIsMove
  /\ last.fresh
  /\ last.status = 409
  /\ \E o \in Rivals : o.fresh /\ o.status = 200 /\ o.expectedVersion = 0

\* The players the matchmaker names in POST /init, and the agent that sends
\* each moveId (a moveId is made up by the agent that submits it).
InitPlayers == Players(1, 2)
SenderOf(id) == IF id = 2 THEN 2 ELSE 1

\* The agent whose turn it is: the players take turns, the first player first.
activeAgentId(s) == InitPlayers[(LoadedTurn(s) % 2) + 1]

\* C13: a move submitted by an agent other than the active agent is rejected
\* (not with 200), and leaves the state as it was.
C13_NotYourTurnRejected ==
  (LastIsMove /\ last.fresh /\ SenderOf(last.body.moveId.n) # activeAgentId(last.before))
    => /\ last.status = 403
       /\ last.after = last.before

\* C14: once the match has been finished, no fresh move is accepted and the
\* state stays as it was.
C14_TerminalRejectsMoves ==
  (finishAsked /\ LastIsMove /\ last.fresh)
    => /\ last.status # 200
       /\ last.after = last.before

Sent(sub) == sub.seen \o sub.pending

EventCount(evs, event) == Cardinality({i \in DOMAIN evs : evs[i].event = event})

\* finish on an active match ends it with the given reason and no winner,
\* game_ended closes the canonical sequence and is the last event sent to
\* every subscription the broadcast did not drop; finish on an ended match
\* answers already_ended and leaves the match as it was; no run has a second
\* game_ended or a second result.
FinishEndsOnce ==
  /\ (done.op = "finish" /\ done.before.status = "active") =>
       /\ done.result = "ok"
       /\ match.status = "ended"
       /\ match.reason \in FinishReasons
       /\ match.winner = NoWinner
       /\ log[Len(log)] = GameEnded(match)
       /\ \A s \in SubIds :
            (subs[s].status = "closed" /\ subs[s].from < Len(log)) =>
               Sent(subs[s])[Len(Sent(subs[s]))] = GameEnded(match)
  /\ (done.op = "finish" /\ done.before.status = "ended") =>
       /\ done.result = "already_ended"
       /\ match = done.before
  /\ EventCount(log, "game_ended") = (IF match.status = "ended" THEN 1 ELSE 0)
  /\ \A s \in SubIds : EventCount(Sent(subs[s]), "game_ended") <= 1
  /\ Len(results) <= 1
  /\ \A p \in DOMAIN leaderboard : leaderboard[p] <= 1

Canonical(sub) == Visible(SubSeq(log, sub.from + 1, Len(log)), sub.agentId)

IsPrefix(a, b) == Len(a) <= Len(b) /\ a = SubSeq(b, 1, Len(a))

Delivered(sub) == sub.snapshot \o Sent(sub)

\* The agent that moved the match out of stateVersion v, if a move did.
MoversAt(v) ==
  {log[i].agentId : i \in {j \in DOMAIN log : log[j].event = "engine_events"
                                              /\ log[j].stateVersion = v + 1}}

Empty == [kind |-> "Empty"]
Holding(m, a) == [kind |-> "Holding", matchId |-> m, agent |-> a]

\* The pending slot of a storage.
SlotOf(st) ==
  IF st.pendingMatchId # 0 /\ st.pendingAgentId # 0
    THEN Holding(st.pendingMatchId, st.pendingAgentId)
    ELSE Empty

\* The steps in which a POST /queue request arrives.
JoinArrived == act.op \in {"rejoin", "pair", "hold"}

\* The number of match_found events for match m in a sequence of events.
MatchFoundCount(es, m) ==
  Cardinality({i \in 1..Len(es) : es[i].event = "match_found" /\ es[i].matchId = m})

\* C5: a join by the agent that holds the slot, whose first join has been
\* answered {m, waiting}, is answered the same {m, waiting}, and leaves the
\* pending slot, latestMatchId and every event buffer as they were.
C5_RejoinIdempotent ==
  /\ \A a \in Agents :
       (SlotOf(Storage) = Holding(pendingMatchId, a) /\ joins[a].pc = "idle")
         => Answer(a, pendingMatchId, "waiting") \in answered
  /\ (JoinArrived /\ SlotOf(act.pre).kind = "Holding"
        /\ SlotOf(act.pre).agent = act.agent)
       => /\ act.op = "rejoin"
          /\ act.response = [matchId |-> act.pre.pendingMatchId, status |-> "waiting"]
          /\ Storage = act.pre

C5_Witness ==
  /\ act.op = "rejoin"
  /\ act.response.matchId = 2
  /\ \E b \in Agents : events[b] # <<>>

C7_MatchFoundDelivered ==
  \A a \in Agents, m \in MatchIds :
    (MatchFoundCount(enq[a], m) = 1) ~> (MatchFoundCount(ret[a], m) = 1)

\* C8: the pending slot changes only from Empty to Holding(m, a) by a join
\* of a, and from Holding(m, a) to Empty by a join of another agent or a
\* leave of a.
C8_SlotTransitions ==
  LET before == SlotOf(act.pre)
      after == SlotOf(Storage)
  IN before # after
       => \/ /\ before = Empty
             /\ after.kind = "Holding"
             /\ act.op = "hold"
             /\ after.agent = act.agent
          \/ /\ before.kind = "Holding"
             /\ after = Empty
             /\ \/ act.op = "pair" /\ act.agent # before.agent
                \/ act.op = "leave" /\ act.agent = before.agent

C8_Witness ==
  /\ act.op = "pair"
  /\ SlotOf(act.pre) = Holding(2, 2)
  /\ SlotOf(Storage) = Empty

\* C9: a leave by the agent that holds the slot empties the slot.
C9_LeaveEmptiesHeldSlot ==
  (act.op = "leave" /\ SlotOf(act.pre).kind = "Holding"
     /\ SlotOf(act.pre).agent = act.agent)
    => SlotOf(Storage) = Empty

\* The positions of the events of ret in enq increase: ret is enq with some
\* events left out.
RECURSIVE IsSubSeq(_, _)
IsSubSeq(r, e) ==
  IF r = <<>> THEN TRUE
  ELSE IF e = <<>> THEN FALSE
  ELSE IF Head(r) = Head(e) THEN IsSubSeq(Tail(r), Tail(e))
  ELSE IsSubSeq(r, Tail(e))

\* C10: the events returned to an agent are returned in the order they were
\* enqueued, and a waitEvents call on a non-empty buffer returns the front
\* event and removes that event and no other.
C10_EventsFifo ==
  /\ \A a \in Agents : IsSubSeq(ret[a] \o events[a], enq[a])
  /\ act.op = "take"
       => /\ act.pre.events[act.agent] # <<>>
          /\ act.response = Head(act.pre.events[act.agent])
          /\ events = [act.pre.events EXCEPT ![act.agent] = Tail(@)]

C10_Witness ==
  /\ act.op = "take"
  /\ Len(act.pre.events[act.agent]) = 2
  /\ Len(ret[act.agent]) = 1
  /\ Len(enq[act.agent]) = 2

\* The buffer after the event e is pushed onto the buffer before.
Pushed(before, e) ==
  IF Len(before) = 25 THEN Tail(before) \o <<e>> ELSE before \o <<e>>

\* C11: a buffer never holds more than 25 events; an enqueue onto a buffer
\* (the event is not handed to a suspended call) puts the event last, drops
\* the oldest event if the buffer was full, and keeps the others in order.
C11_BufferBounded ==
  /\ \A a \in Agents : Len(events[a]) <= 25
  /\ act.op = "ready"
       => \A x \in Agents :
            LET e == enq[x][Len(enq[x])]
            IN (\A i \in 1..Len(ret[x]) : ret[x][i] # e)
                 => events[x] = Pushed(act.pre.events[x], e)

C11_Witness ==
  /\ act.op = "ready"
  /\ Len(act.pre.events[2]) = 25
  /\ Len(events[2]) = 25
  /\ events[2][25] = enq[2][26]
  /\ events[2][1] = enq[2][2]

\* The followed call of agent a is suspended.
Watched(a) == \E i \in 1..Len(waiters[a]) : waiters[a][i].watched

\* An event is enqueued for agent a in this step.
Enqueued(a) == Len(enq'[a]) > Len(enq[a])

\* C12 as claimed: a call that is suspended when an event is enqueued for its
\* agent returns that event, so that no call of the agent stays suspended.
C12_SuspendedCallGetsNextEvent ==
  [][\A a \in Agents : (Enqueued(a) /\ waiters[a] # <<>>) => waiters'[a] = <<>>]_vars

\* C12 as amended: every suspended call returns, and returns once: an event
\* enqueued for the agent goes to the agent's oldest suspended call and to no
\* other, every other call leaves only by its timer, with no_events; a
\* timeout of 0 or less arms a timer of 0 ms.
C12_WaitReturnsOnce ==
  /\ \A a \in Agents : Watched(a) ~> ~Watched(a)
  /\ [][\A a \in Agents :
          /\ (Enqueued(a) /\ waiters[a] # <<>>)
               => /\ waiters'[a] = Tail(waiters[a])
                  /\ events'[a] = events[a]
                  /\ ~Head(waiters[a]).gone
                       => ret'[a] = Append(ret[a], enq'[a][Len(enq'[a])])
          /\ (~Enqueued(a) /\ Len(waiters'[a]) < Len(waiters[a]))
               => /\ act'.op = "timeout"
                  /\ act'.agent = a
                  /\ \E i \in 1..Len(waiters[a]) :
                       /\ waiters'[a] = removeWaiter(waiters[a], i)
                       /\ act'.response =
                            IF waiters[a][i].gone THEN Absent ELSE buildNoEventsEvent
                  /\ ret' = ret
                  /\ events' = events]_vars
  /\ [](act.op = "suspend"
          => /\ act.response.timeoutMs >= 0
             /\ act.response.timeoutSeconds <= 0 => act.response.timeoutMs = 0
             /\ act.response.timeoutSeconds > 0
                  => act.response.timeoutMs = 1000 * act.response.timeoutSeconds)

\* An event has just gone to an older call of the agent while the followed
\* call stays suspended.
C12_Witness ==
  /\ act.op = "ready"
  /\ Watched(act.agent)
  /\ Len(waiters[act.agent]) = 1
  /\ Len(enq[act.agent]) = 1
  /\ Len(ret[act.agent]) = 1

\* A join handler that allocated or paired match m is still running.
InFlight(m) == \E a \in Agents : joins[a].pc # "idle" /\ joins[a].matchId = m

Paired(m) == \E i \in inits : i.matchId = m

PlayerRows(m) == {r \in matchPlayers : r.matchId = m}

\* C20: a match whose row is not in D1 although recordMatch is over has had
\* its join answered {m, waiting}; a paired match whose match_players rows
\* are not in D1 although its handlers are over has had the pairing join
\* answered {m, ready} and one match_found enqueued for each player; the
\* steps that answer leave the pending slot and latestMatchId as they found
\* them and leave the handler idle, so that the next join is taken.
C20_PersistenceFailureKeepsPairing ==
  /\ \A m \in 1..nMatches :
       /\ (m \notin matches /\ ~(\E a \in Agents : joins[a].pc = "recordMatch"
                                                  /\ joins[a].matchId = m)) =>
            \E a \in Agents : Answer(a, m, "waiting") \in answered
       /\ (Paired(m) /\ PlayerRows(m) = {} /\ ~InFlight(m)) =>
            \E i \in inits :
              /\ i.matchId = m
              /\ Answer(i.players[2], m, "ready") \in answered
              /\ \A k \in 1..2 : MatchFoundCount(enq[i.players[k]], m) = 1
  /\ act.op \in {"waiting", "ready"} =>
       /\ pendingMatchId = act.pre.pendingMatchId
       /\ pendingAgentId = act.pre.pendingAgentId
       /\ latestMatchId = act.pre.latestMatchId
       /\ joins[act.agent] = Idle

\* Both inserts of match 1 failed, its joins were answered waiting and
\* ready, and the next join has since been given match 2 and answered.
C20_Witness ==
  /\ 1 \notin matches
  /\ PlayerRows(1) = {}
  /\ \E a \in Agents : Answer(a, 1, "waiting") \in answered
  /\ \E a \in Agents : Answer(a, 1, "ready") \in answered
  /\ \A a \in Agents : MatchFoundCount(enq[a], 1) = 1
  /\ \E a \in Agents : Answer(a, 2, "waiting") \in answered
  /\ \A a \in Agents : joins[a].pc = "idle"

\* MatchDO.fetch on POST /init: the request matches neither POST /move nor
\* GET /state, and the answer is line 83's.
InitResponse == [status |-> 404, body |-> "Not found"]

\* C21: once the pairing join of a match whose actor failed to initialise
\* is over, both players have been sent an event of that match that is not
\* match_found (a terminal event), and neither holds a match_found for it.
C21_InitFailureEndsMatch ==
  \A i \in inits :
    (InitResponse.status # 200 /\ ~InFlight(i.matchId)) =>
      \A k \in 1..2 :
        /\ MatchFoundCount(enq[i.players[k]], i.matchId) = 0
        /\ \E n \in DOMAIN enq[i.players[k]] :
             /\ enq[i.players[k]][n].matchId = i.matchId
             /\ enq[i.players[k]][n].event # "match_found"

\* C22: no resolver of a caller that has disconnected stays in this.waiters,
\* and no event is handed to one: every event enqueued for an agent has been
\* returned to a caller that was there, or is still in the agent's buffer.
C22_DisconnectKeepsEvent ==
  \A a \in Agents :
    /\ \A i \in DOMAIN waiters[a] : ~waiters[a][i].gone
    /\ Len(enq[a]) <= EVENT_BUFFER_MAX => enq[a] = ret[a] \o events[a]


(***************************************************************************)
(* Properties of the auth routes.                                          *)
(***************************************************************************)
IssuedTo(code) == {i.agentId : i \in {j \in issued : j.claimCode = code}}

\* C24: register -> verify(claimCode) -> me.  A verify with the admin key and
\* a claim code that a registration returned is answered 200 or 409: a 200
\* names the agent of that registration with a verifiedAt that is not null, a
\* 409 means that agent is verified already; and me of an agent that a verify
\* answered 200 has named reports verified: true.
C24_RegisterVerifyMe ==
  /\ (/\ authAct.op = "verify"
      /\ authAct.status # 403
      /\ authAct.sent.valid
      /\ IssuedTo(Trim(authAct.sent.claimCode)) # {})
       => /\ authAct.status \in {200, 409}
          /\ IssuedTo(Trim(authAct.sent.claimCode)) = {authAct.agent}
          /\ agents[authAct.agent].verifiedAt # Null
          /\ authAct.status = 200 =>
               /\ authAct.body.agentId = authAct.agent
               /\ authAct.body.verifiedAt # Null
  /\ (authAct.op = "me" /\ authAct.agent \in verified200)
       => /\ authAct.status = 200
          /\ authAct.body.verified
          /\ authAct.body.verifiedAt # Null

C24_Witness ==
  /\ authAct.op = "me"
  /\ authAct.agent \in verified200
  /\ \E i \in issued : i.agentId = authAct.agent
  /\ authAct.body.verified

\* The agent a verify request is about: the row its claim code selects.
Claimed(sent) == ByClaimHash(sha256Hex(Trim(sent.claimCode)))

\* A step of POST /verify that takes the request and answers it at once.
VerifyAnswered ==
  /\ nAuth' = nAuth + 1
  /\ verifies' = verifies
  /\ regs' = regs
  /\ authAct'.op = "verify"

\* C30: verification is monotonic.  An agent's verified_at leaves null only
\* in the UPDATE of a verify that was sent the agent's own claim code; a
\* verify that is called for an agent verified already is answered 409 and
\* changes no row, and no verify gets past the check for such an agent; a
\* row is never removed and a verified_at that is not null never changes.
C30_VerificationMonotonic ==
  [][\A id \in AgentIds :
       /\ (agents[id] # Absent /\ agents[id].verifiedAt = Null
             /\ agents'[id].verifiedAt # Null)
            => \E v \in HandlerSlots :
                 /\ verifies[v].pc = "update" /\ verifies'[v].pc = "select"
                 /\ verifies[v].id = id
                 /\ [agentId |-> id, claimCode |-> Trim(verifies[v].sent.claimCode)] \in issued
       /\ (VerifyAnswered /\ authAct'.status # 403 /\ authAct'.sent.valid
             /\ id \in Claimed(authAct'.sent) /\ agents[id].verifiedAt # Null)
            => authAct'.status = 409 /\ agents' = agents
       /\ \A v \in HandlerSlots :
            (verifies[v].pc = "idle" /\ verifies'[v].pc = "update" /\ verifies'[v].id = id)
              => agents[id].verifiedAt = Null
       /\ agents[id] # Absent => agents'[id] # Absent
       /\ (agents[id] # Absent /\ agents[id].verifiedAt # Null) => agents'[id] = agents[id]
    ]_vars

\* A verify answered 409 for an agent that two racing verifies had both
\* passed the check for: the later UPDATE left the verified_at of the first.
C30_Witness ==
  /\ authAct.op = "verify"
  /\ authAct.status = 409
  /\ agents[authAct.agent].verifiedAt # Null
  /\ clock > agents[authAct.agent].verifiedAt
  /\ \A id \in AgentIds \ {authAct.agent} : agents[id] = Absent

\* A step in which a gameplay route takes a call of agent a.
GatedCall(a) ==
  /\ nAuth' = nAuth + 1
  /\ regs' = regs
  /\ verifies' = verifies
  /\ authAct'.op \in {"join", "move"}
  /\ authAct'.agent = a

AnsweredWith(m, status) == {a \in Agents : Answer(a, m, status) \in answered}

\* The joins in flight that took the empty slot for m or are pairing m.
HoldingJoins(m) == {a \in Agents : joins[a].pc = "recordMatch" /\ joins[a].matchId = m}
PairingJoins(m) == {a \in Agents : joins[a].pc \in {"init", "recordMatchPlayers"} /\ joins[a].matchId = m}

\* C27: joins are serialized.  Of the joins of distinct agents that meet on
\* one matchId, concurrent or not, exactly one takes the empty slot (answered
\* waiting) and exactly one pairs with it (answered ready, same matchId); and
\* an agent that holds a waiting matchId either holds the pending slot with
\* it or is the first player of the match that was paired under that matchId.
C27_JoinsSerialized ==
  \A m \in 1..nMatches :
    /\ Cardinality(AnsweredWith(m, "waiting") \cup HoldingJoins(m)) = 1
    /\ Cardinality(AnsweredWith(m, "ready") \cup PairingJoins(m)) <= 1
    /\ AnsweredWith(m, "waiting") \cap AnsweredWith(m, "ready") = {}
    /\ (AnsweredWith(m, "ready") \cup PairingJoins(m)) \cap (AnsweredWith(m, "waiting") \cup HoldingJoins(m)) = {}
    /\ \A a \in AnsweredWith(m, "waiting") \cup HoldingJoins(m) :
         \/ pendingMatchId = m /\ pendingAgentId = a
         \/ /\ pendingMatchId # m
            /\ \E i \in inits : i.matchId = m /\ i.players[1] = a
            /\ Cardinality(AnsweredWith(m, "ready") \cup PairingJoins(m)) = 1
            /\ \A b \in AnsweredWith(m, "ready") \cup PairingJoins(m) :
                 [matchId |-> m, players |-> <<a, b>>] \in inits

\* Two joins that ran concurrently: the one that took the empty slot is
\* answered waiting after the one that paired with it was answered ready.
C27_Witness ==
  /\ act.op = "waiting"
  /\ AnsweredWith(act.response.matchId, "ready") # {}
  /\ AnsweredWith(act.response.matchId, "waiting") = {act.agent}
  /\ pendingMatchId # act.response.matchId

\* The matchIds the match_found events enqueued for agent a name.
Found(a) == {enq[a][n].matchId : n \in {k \in DOMAIN enq[a] : enq[a][k].event = "match_found"}}

\* C28: the order within a pairing.  When /init has been sent for a match the
\* pending slot no longer holds it, and a match_found for a match is
\* enqueued only after /init was sent for it and the call has returned: no
\* agent is told of a match whose object the matchmaker has not yet asked to
\* initialise, and while a pairing awaits /init nothing is enqueued for it.
C28_PairingOrder ==
  /\ \A i \in inits : pendingMatchId # i.matchId
  /\ \A b \in Agents :
       joins[b].pc = "init" =>
         /\ Paired(joins[b].matchId)
         /\ \A a \in Agents : joins[b].matchId \notin Found(a)
  /\ \A a \in Agents : \A m \in Found(a) :
       /\ Paired(m)
       /\ pendingMatchId # m
       /\ ~\E b \in Agents : joins[b].pc \in {"init", "recordMatchPlayers"} /\ joins[b].matchId = m

\* Both players of match 1 have their match_found, after the slot was
\* cleared and /init sent, and the slot is held again for the next match.
C28_Witness ==
  /\ \A a \in Agents : 1 \in Found(a)
  /\ Paired(1)
  /\ pendingMatchId = 2

\* C29: latestMatchId is written only by the pairing transition.  A join that
\* finds the slot empty leaves latestMatchId as it was, so a latestMatchId
\* that is set names a match that has been paired.
C29_LatestOnlyByPairing ==
  /\ act.op = "hold" => latestMatchId = act.pre.latestMatchId
  /\ latestMatchId # 0 => Paired(latestMatchId)

\* C32: no match has the same agent in both seats: the players of every
\* /init sent and of every pairing in flight are two distinct agents, and no
\* agent has both seats of a match in match_players.
C32_DistinctPlayers ==
  /\ \A i \in inits : i.players[1] # i.players[2]
  /\ \A b \in Agents :
       joins[b].pc \in {"init", "recordMatchPlayers"} => joins[b].pendingAgentId # b
  /\ \A r1, r2 \in matchPlayers :
       (r1.matchId = r2.matchId /\ r1.seat # r2.seat) => r1.agentId # r2.agentId
  /\ (act.op = "pair") => act.pre.pendingAgentId # act.agent

\* The agent holding the slot for match 2 joined again after match 1 had
\* been paired and recorded, and was not paired.
C32_Witness ==
  /\ act.op = "rejoin"
  /\ act.pre.pendingAgentId = act.agent
  /\ PlayerRows(1) # {}
  /\ ~Paired(2)

\* C33: pendingMatchId and pendingAgentId are both set or both unset in
\* every state, so also after every completed operation: a join reads and
\* writes the two keys by storage operations with no other await between.
C33_SlotNeverHalfFilled ==
  (pendingMatchId = 0) <=> (pendingAgentId = 0)

\* The slot was held, emptied by a pairing, and is held again.
C33_Witness ==
  /\ pendingMatchId = 2
  /\ pendingAgentId # 0
  /\ Paired(1)
  /\ \A a \in Agents : joins[a].pc = "idle"

\* C34: an agent never has a registered waiter and a non-empty buffer at the
\* same time, so a call that times out with no_events leaves no event of
\* its agent behind in the buffer.
C34_WaiterXorBuffer ==
  /\ \A a \in Agents : waiters[a] # <<>> => events[a] = <<>>
  /\ act.op = "suspend" => act.pre.events[act.agent] = <<>>
  /\ act.op = "timeout" => events[act.agent] = <<>>

\* A call timed out for an agent whose earlier event had been buffered and
\* taken.
C34_Witness ==
  /\ act.op = "timeout"
  /\ act.response = buildNoEventsEvent
  /\ Len(ret[act.agent]) = 1
  /\ Len(enq[act.agent]) = 1

\* C35: an enqueued event is returned by at most one call; a waiter leaves
\* the set once, either with the event enqueued then (the oldest waiter, and
\* only it, while the buffer is left alone) or by its timer with no_events
\* (and no event); and an event enqueued when no waiter is registered goes to
\* the buffer.
C35_EventAndWaiterOnce ==
  /\ \A a \in Agents : IsSubSeq(ret[a], enq[a])
  /\ [][\A a \in Agents :
          /\ Len(enq'[a]) <= Len(enq[a]) + 1
          /\ (Enqueued(a) /\ waiters[a] # <<>>)
               => /\ waiters'[a] = Tail(waiters[a])
                  /\ events'[a] = events[a]
                  /\ ret'[a] = IF Head(waiters[a]).gone
                                 THEN ret[a]
                                 ELSE Append(ret[a], enq'[a][Len(enq'[a])])
          /\ (Enqueued(a) /\ waiters[a] = <<>>)
               => /\ waiters'[a] = <<>>
                  /\ ret'[a] = ret[a]
                  /\ events'[a] = PushEvent(events[a], enq'[a][Len(enq'[a])])
          /\ (~Enqueued(a) /\ Len(waiters'[a]) < Len(waiters[a]))
               => /\ act'.op = "timeout" /\ act'.agent = a
                  /\ Len(waiters'[a]) = Len(waiters[a]) - 1
                  /\ ret'[a] = ret[a]
                  /\ events'[a] = events[a]
     ]_vars

\* Of two waiters of one agent the older one got the event; the other is
\* still registered, and nothing was buffered.
C35_Witness ==
  /\ act.op = "ready"
  /\ \E x \in Agents :
       /\ Len(act.pre.events[x]) = 0
       /\ Len(waiters[x]) = 1
       /\ ret[x] = enq[x]
       /\ Len(enq[x]) = 1
       /\ events[x] = <<>>

\* The matchIds some join has been answered with.
AnsweredIds == {r.matchId : r \in answered}

\* C36: a join that finds the slot empty, also one of an agent that an
\* earlier join paired into match m (answered ready), takes the slot with a
\* fresh matchId, which no answer and no pairing has named, and is answered
\* waiting with it: the repeated join does not return m.
C36_RepeatedJoinNotIdempotent ==
  /\ (JoinArrived /\ SlotOf(act.pre) = Empty)
       => /\ act.op = "hold"
          /\ SlotOf(Storage) = Holding(pendingMatchId, act.agent)
          /\ pendingMatchId \notin AnsweredIds
          /\ ~Paired(pendingMatchId)
          /\ joins[act.agent].matchId = pendingMatchId
  /\ \A b \in Agents : \A m \in MatchIds :
       (Answer(b, m, "ready") \in answered)
         => /\ Answer(b, m, "waiting") \notin answered
            /\ ~(joins[b].pc = "recordMatch" /\ joins[b].matchId = m)

\* Agent 2, paired into match 1 and answered ready, joined again on the
\* empty slot and was answered waiting with match 2.
C36_Witness ==
  /\ act.op = "waiting"
  /\ act.response.matchId = 2
  /\ Answer(act.agent, 1, "ready") \in answered
  /\ Answer(act.agent, 2, "waiting") \in answered


(***************************************************************************)
(* Properties of doFetchWithRetry (RetrySpec).                             *)
(***************************************************************************)
\* The fetches of the call that gave a response, and those that threw.
Succeeded(i) == retry.tried[i].ok
ThrewReset(i) == ~retry.tried[i].ok /\ isDurableObjectResetError(retry.tried[i].error)
Calls == Len(retry.tried)

\* C39: a call of doFetchWithRetry makes at most retries + 1 calls of
\* stub.fetch and then ends; every fetch it follows with another threw a
\* Durable-Object-reset error; it returns the response of the first fetch
\* that succeeds; it throws on an error that is no reset error at the fetch
\* that threw it, and a reset error once retries + 1 fetches have been made.
C39_RetryBoundedAndEnds ==
  /\ [](/\ Calls <= retry.retries + 1
        /\ \A i \in 1..(Calls - 1) : ThrewReset(i)
        /\ retry.pc \in {"fetching", "sleeping"} =>
             /\ \A i \in 1..Calls : ThrewReset(i)
             /\ Calls <= retry.retries
        /\ retry.pc = "returned" =>
             /\ Calls >= 1 /\ Succeeded(Calls)
             /\ retry.out = retry.tried[Calls]
             /\ retry.out.call = Calls
        /\ retry.pc = "thrown" =>
             /\ Calls >= 1 /\ ~Succeeded(Calls)
             /\ retry.out = retry.tried[Calls]
             /\ ThrewReset(Calls) => Calls = retry.retries + 1)
  /\ [](retry.pc \in {"fetching", "sleeping"} => <>(retry.pc \in {"returned", "thrown"}))

\* A call with the default of two retries that met two resets and returned
\* the response of its third fetch.
C39_Witness ==
  /\ retry.pc = "returned"
  /\ retry.retries = 2
  /\ Calls = 3
  /\ ThrewReset(1) /\ ThrewReset(2)
  /\ retry.out = Response(3)


(***************************************************************************)
(* Properties of the sim harness (SimSpec).                                *)
(***************************************************************************)
\* The run forfeits on rejections and has met one.
ForfeitMet == sim.invalidPolicy = "forfeit" /\ sim.firstRejected # Absent

\* C31: with invalidPolicy "forfeit", once a move of the run has been
\* rejected the match state stays as it stood at the rejection and no move
\* is accepted after it, no second move is even tried, the run ends at its
\* next step, and its result has reason "illegal" and as winner the player
\* who was not to move when the move was rejected.
C31_FirstRejectionForfeits ==
  /\ [](ForfeitMet =>
          /\ sim.matchState = sim.firstRejected.matchState
          /\ sim.acceptedMoves = sim.firstRejected.acceptedMoves
          /\ sim.illegalMoves = 1
          /\ sim.pc \in {"close", "done"}
          /\ sim.pc = "done" =>
               /\ sim.result.reason = "illegal"
               /\ sim.result.illegalMoves = 1
               /\ sim.result.winner \in SimPlayers \ {sim.firstRejected.by})
  /\ [][(ForfeitMet /\ sim.pc = "close") => sim'.pc = "done"]_vars

\* A forfeit run that applied a move, then met a rejected move of p2, and ended.
C31_Witness ==
  /\ ForfeitMet
  /\ sim.pc = "done"
  /\ sim.acceptedMoves >= 1
  /\ sim.firstRejected.by = "p2"
  /\ sim.result.reason = "illegal"
  /\ sim.result.winner = "p1"

====
